---------------------------- MODULE Spec2Model ----------------------------
(***************************************************************************)
(* Model of the maisoku-obikae editor: the layout generator                *)
(* (createInitialBlocks), the mask controls, the preview editor            *)
(* (PreviewEditor) and the geometry of its PDF export (handleExport).      *)
(*                                                                         *)
(* Lengths are JavaScript numbers in the source.  Here every length is an  *)
(* integer count of 1/Unit pixel, with Unit chosen so that every division  *)
(* the code performs on the modelled inputs (x0.9, /2, /2 again, x scale)  *)
(* is exact.                                                               *)
(***************************************************************************)
EXTENDS Integers, Sequences, FiniteSets, TLC

VARIABLES
    layoutArgs,       \* arguments of one createInitialBlocks call
    layoutResult,     \* <<>> before the call, <<list>> after it
    step,             \* EditorPage.step
    pages,            \* PageInfo[] handed to PreviewEditor
    selectedPageId,   \* EditorPage.selectedPageId: <<>> or <<id>>
    maskSettings,     \* pageId -> MaskSettings
    companyProfile,   \* <<>> (null) or <<profile>>
    mounted,          \* how many times PreviewEditor has been mounted
    currentPageIndex, \* PreviewEditor state (0-based index + 1)
    scale,            \* preview scale as <<num, den>>
    originalPageSize, \* width of the first loaded page in Unit, 0 = unset
    maxWidth,         \* measured container width in Unit
    dimensions,       \* [width, height] of the rendered page
    pageDimensions,   \* pageId -> [width, height], partial
    blocks,           \* pageId -> Block[], partial
    selectedBlockId,  \* <<>> or <<id>>
    dragging,         \* <<>> or <<[blockId, blockStartX, blockStartY]>>
    loadPending,      \* a Page onLoadSuccess event is due
    edits,            \* moves, property changes and deletions made since mounting
    generated,        \* pageId -> how often onPageLoadSuccess installed a fresh list
    exportLog,        \* <<>> or <<result of the handleExport that just ran>>
    exporting,        \* PreviewEditor.exporting
    pc,               \* the await the running handleExport stands at, or "idle"
    job,              \* <<>>, or <<closure and locals>> of the handleExport that
                      \* is running or has just thrown
    toasts,           \* toast messages shown since the latest export attempt began
    downloads,        \* the documents handed to downloadFile, oldest first
    logRequests,      \* state of each /api/log-export request, oldest first
    attempts,         \* how many times the export button was pressed
    uploads           \* handleFilesSelected calls that are still parsing

vars == <<layoutArgs, layoutResult, step, pages, selectedPageId, maskSettings, companyProfile,
          mounted, currentPageIndex, scale, originalPageSize, maxWidth,
          dimensions, pageDimensions, blocks, selectedBlockId, dragging,
          loadPending, edits, generated, exportLog,
          exporting, pc, job, toasts, downloads, logRequests, attempts, uploads>>

layoutVars == <<layoutArgs, layoutResult>>
exportVars == <<exporting, pc, job, toasts, downloads, logRequests, attempts>>
previewVars == <<mounted, currentPageIndex, scale, originalPageSize, maxWidth,
                 dimensions, pageDimensions, blocks, selectedBlockId, dragging,
                 loadPending, edits, generated>>

---------------------------------------------------------------------------
(* Numbers *)

Unit == 8 * 10
Px(n) == n * Unit

Max(a, b) == IF a >= b THEN a ELSE b
Min(a, b) == IF a <= b THEN a ELSE b

\* Math.round of the rational n/d (d > 0, n >= 0): floor(n/d + 1/2)
RoundDiv(n, d) == (2 * n + d) \div (2 * d)

\* the quotient n/d as a pair in lowest terms
RECURSIVE GCD(_, _)
GCD(a, b) == IF b = 0 THEN a ELSE GCD(b, a % b)
Ratio(n, d) == <<n \div GCD(n, d), d \div GCD(n, d)>>

\* null / absent values: <<>> is null, <<v>> is the value v
Null == <<>>
Some(v) == <<v>>
IsNull(o) == o = <<>>
Val(o) == o[1]
\* JavaScript truthiness of a string | null
TruthyStr(o) == o # <<>> /\ o[1] # ""

---------------------------------------------------------------------------
(* createInitialBlocks *)

marginTop == Px(8)
marginBottom == Px(8)
marginX == Px(10)
gapBetweenSections == Px(10)

\* companyProfile?.field
ProfileField(profile, f) == IF IsNull(profile) THEN Null ELSE Val(profile)[f]

TextBlock(pid, field, x, y, width, height, fontSize, fontWeight) ==
    [id |-> <<pid, field>>, type |-> "text", field |-> field,
     x |-> x, y |-> y, width |-> width, height |-> height,
     fontSize |-> fontSize, fontWeight |-> fontWeight, textAlign |-> "left"]

ImageBlockRect(pid, field, x, y, width, height) ==
    [id |-> <<pid, field>>, type |-> "image", field |-> field,
     x |-> x, y |-> y, width |-> width, height |-> height]

ImageBlock(pid, field, x, y, size) == ImageBlockRect(pid, field, x, y, size, size)

\* blocks.some((b) => b.field === field)
HasBlock(list, field) == \E i \in 1..Len(list) : list[i].field = field

\* a variant without the cap of baseScale at 1
companyNameFontSizeUncapped(maskBottomHeight) ==
    Max(11, RoundDiv(16 * maskBottomHeight, Px(100)))

companyNameFontSizeOf(maskBottomHeight) ==
    LET scaled == IF maskBottomHeight >= Px(100) THEN 16
                  ELSE RoundDiv(16 * maskBottomHeight, Px(100))
    IN  Max(11, scaled)

smallFontSizeOf(maskBottomHeight) ==
    LET scaled == IF maskBottomHeight >= Px(100) THEN 10
                  ELSE RoundDiv(10 * maskBottomHeight, Px(100))
    IN  Max(8, scaled)

imageSizeOf(availableHeight) == Min(availableHeight, (availableHeight * 9) \div 10)

\* fee_ratio_tenant !== null
FeeTenantGate(profile) ==
    ~IsNull(ProfileField(profile, "fee_ratio_tenant"))

FeeRatioGate(profile) ==
    ~IsNull(ProfileField(profile, "fee_ratio_landlord"))

FeeDistributionGate(profile) ==
    ~IsNull(ProfileField(profile, "fee_distribution_motoduke"))

createInitialBlocks(pid, canvasWidth, canvasHeight, maskBottomHeight, maskLeftWidth, enableLShape, profile) ==
    LET maskStartX == IF enableLShape THEN maskLeftWidth ELSE 0
        maskStartY == canvasHeight - maskBottomHeight
        totalAvailableWidth ==
            (IF enableLShape THEN canvasWidth - maskLeftWidth ELSE canvasWidth)
            - marginX * 2
        availableHeight == maskBottomHeight - marginTop - marginBottom
        companyNameFontSize == companyNameFontSizeOf(maskBottomHeight)
        smallFontSize == smallFontSizeOf(maskBottomHeight)
        companyNameHeight == Px(companyNameFontSize + 6)
        smallLineHeight == Px(smallFontSize + 6)
        hasLogo == TruthyStr(ProfileField(profile, "logo_url"))
        hasQr == TruthyStr(ProfileField(profile, "line_qr_url"))
        imageSize == imageSizeOf(availableHeight)
        logoWidth == IF hasLogo THEN imageSize ELSE 0
        qrWidth == IF hasQr THEN imageSize ELSE 0
        imageY == maskStartY + marginTop + (availableHeight - imageSize) \div 2
        logo == IF hasLogo
                THEN <<ImageBlock(pid, "logo", maskStartX + marginX, imageY, imageSize)>>
                ELSE <<>>
        qr == IF hasQr
              THEN <<ImageBlock(pid, "line_qr",
                       maskStartX + marginX + totalAvailableWidth - imageSize,
                       imageY, imageSize)>>
              ELSE <<>>
        textStartX == maskStartX + marginX
                      + (IF hasLogo THEN logoWidth + gapBetweenSections ELSE 0)
        textAreaWidth == totalAvailableWidth
                         - (IF hasLogo THEN logoWidth + gapBetweenSections ELSE 0)
                         - (IF hasQr THEN qrWidth + gapBetweenSections ELSE 0)
        columnWidth == textAreaWidth \div 2
        startY == maskStartY + marginTop
        cellWidth == (columnWidth - Px(5)) \div 2 - Px(2)
        cellX == textStartX + (columnWidth - Px(5)) \div 2
        leftY1 == startY
        leftY2 == leftY1 + companyNameHeight + Px(2)
        leftY3 == leftY2 + smallLineHeight + Px(2)
        hasRatio == FeeRatioGate(profile)
        leftY4 == IF hasRatio THEN leftY3 + smallLineHeight + Px(2) ELSE leftY3
        small(field, x, y, w) ==
            TextBlock(pid, field, x, y, w, smallLineHeight, smallFontSize, "normal")
        left == << TextBlock(pid, "company_name", textStartX, leftY1,
                             columnWidth - Px(5), companyNameHeight,
                             companyNameFontSize, "bold"),
                   small("license_number", textStartX, leftY2, columnWidth - Px(5)) >>
        ratio == IF hasRatio
                 THEN << small("fee_ratio_landlord", textStartX, leftY3, cellWidth),
                         small("fee_ratio_tenant", cellX, leftY3, cellWidth) >>
                 ELSE <<>>
        distribution ==
            IF FeeDistributionGate(profile)
            THEN << small("fee_distribution_motoduke", textStartX, leftY4, cellWidth),
                    small("fee_distribution_kyakuzuke", cellX, leftY4, cellWidth) >>
            ELSE <<>>
        rightX == textStartX + columnWidth
        rightY1 == startY
        rightY2 == rightY1 + smallLineHeight + Px(2)
        rightY3 == rightY2 + smallLineHeight + Px(2)
        right == << small("address", rightX, rightY1, columnWidth - Px(5)),
                    small("phone", rightX, rightY2, columnWidth - Px(5)),
                    small("email", rightX, rightY3, columnWidth - Px(5)) >>
    IN  logo \o qr \o left \o ratio \o distribution \o right

---------------------------------------------------------------------------
(* Company profiles *)

Profile(logo, qr, ratioLandlord, ratioTenant, distMotoduke, distKyakuzuke) ==
    [company_name |-> Some("ABC"), address |-> Some("Tokyo"),
     phone |-> Some("03"), email |-> Some("a@b"), license_number |-> Some("L1"),
     fax |-> Null, contact_person |-> Null,
     logo_url |-> logo, line_qr_url |-> qr,
     fee_ratio_landlord |-> ratioLandlord, fee_ratio_tenant |-> ratioTenant,
     fee_distribution_motoduke |-> distMotoduke,
     fee_distribution_kyakuzuke |-> distKyakuzuke]

\* only company_name, address, phone, email and license_number populated
BasicProfile == Profile(Null, Null, Null, Null, Null, Null)
FullProfile ==
    Profile(Some("logo.png"), Some("qr.png"), Some(50), Some(50), Some(30), Some(70))

LayoutProfiles ==
    {Null} \cup
    { Some(Profile(logo, qr, rl, rt, dm, dk)) :
        logo \in {Null, Some("logo.png")}, qr \in {Null, Some("qr.png")},
        rl \in {Null, Some(0), Some(50)}, rt \in {Null, Some(50)},
        dm \in {Null, Some(30)}, dk \in {Null, Some(70)} }

---------------------------------------------------------------------------
(* Specification of the layout generator as a pure function *)

MaxHeightSteps == 15
MaxLeftSteps == 3

LayoutCanvases == { <<Px(600), Px(800)>>, <<Px(300), Px(400)>> }
LayoutHeights == { Px(10 * k) : k \in 0..MaxHeightSteps }
LayoutLeftWidths == { Px(150 * k) : k \in 0..MaxLeftSteps }

LayoutInputs ==
    { [canvasWidth |-> c[1], canvasHeight |-> c[2], maskBottomHeight |-> h,
       maskLeftWidth |-> w, enableLShape |-> l, profile |-> p] :
        c \in LayoutCanvases, h \in LayoutHeights, w \in LayoutLeftWidths,
        l \in BOOLEAN, p \in LayoutProfiles }

PreviewUnmounted ==
    /\ mounted = 0
    /\ currentPageIndex = 1
    /\ scale = <<1, 1>>
    /\ originalPageSize = 0
    /\ maxWidth = 0
    /\ dimensions = [width |-> 0, height |-> 0]
    /\ pageDimensions = <<>>
    /\ blocks = <<>>
    /\ selectedBlockId = Null
    /\ dragging = Null
    /\ loadPending = FALSE
    /\ edits = 0
    /\ generated = <<>>

\* no handleExport is running and none has run
ExportIdle ==
    /\ exporting = FALSE
    /\ pc = "idle"
    /\ job = <<>>
    /\ toasts = <<>>
    /\ downloads = <<>>
    /\ logRequests = <<>>
    /\ attempts = 0

EditorEmpty ==
    /\ step = "upload"
    /\ pages = <<>>
    /\ selectedPageId = Null
    /\ maskSettings = <<>>
    /\ companyProfile = Null
    /\ exportLog = Null
    /\ uploads = <<>>

InitLayout ==
    /\ layoutArgs \in LayoutInputs
    /\ layoutResult = Null
    /\ EditorEmpty
    /\ PreviewUnmounted
    /\ ExportIdle

Generate ==
    /\ IsNull(layoutResult)
    /\ layoutResult' = Some(createInitialBlocks("p", layoutArgs.canvasWidth,
                               layoutArgs.canvasHeight, layoutArgs.maskBottomHeight,
                               layoutArgs.maskLeftWidth, layoutArgs.enableLShape,
                               layoutArgs.profile))
    /\ UNCHANGED <<layoutArgs, step, pages, selectedPageId, maskSettings, companyProfile,
                   exportLog, previewVars, exportVars, uploads>>

NextLayout == Generate

SpecLayout == InitLayout /\ [][NextLayout]_vars

---------------------------------------------------------------------------
(* handleExport: geometry of one page *)

SupportedRotations == {0, 90, 180, 270}

Rect(x, y, width, height) == [x |-> x, y |-> y, width |-> width, height |-> height]

isRotated(rotation) == rotation = 90 \/ rotation = 270
displayWidthOf(page) ==
    IF isRotated(page.rotation) THEN page.rawHeight ELSE page.rawWidth
displayHeightOf(page) ==
    IF isRotated(page.rotation) THEN page.rawWidth ELSE page.rawHeight

\* v * scaleRatio, scaleRatio = <<displayWidth, dims.width>>
ScaleBy(v, ratio) == (v * ratio[1]) \div ratio[2]

\* pageDimensions[page.id] || { width: displayWidth, height: displayHeight }
dimsOf(page, allDimensions) ==
    IF page.id \in DOMAIN allDimensions THEN allDimensions[page.id]
    ELSE [width |-> displayWidthOf(page), height |-> displayHeightOf(page)]

scaleRatioOf(page, allDimensions) ==
    Ratio(displayWidthOf(page), dimsOf(page, allDimensions).width)

\* a variant that maps 270 like 90 (the bottom band on the wrong edge)
BottomMaskRectWrongEdge(rotation, rawWidth, rawHeight, bottomMaskHeight) ==
    CASE rotation = 90 \/ rotation = 270 ->
            Rect(0, 0, bottomMaskHeight, rawHeight)
      [] rotation = 180 -> Rect(0, 0, rawWidth, bottomMaskHeight)
      [] OTHER -> Rect(0, 0, rawWidth, bottomMaskHeight)

BottomMaskRect(rotation, rawWidth, rawHeight, bottomMaskHeight) ==
    CASE rotation = 90 -> Rect(0, 0, bottomMaskHeight, rawHeight)
      [] rotation = 180 ->
            Rect(0, rawHeight - bottomMaskHeight, rawWidth, bottomMaskHeight)
      [] rotation = 270 ->
            Rect(rawWidth - bottomMaskHeight, 0, bottomMaskHeight, rawHeight)
      [] OTHER -> Rect(0, 0, rawWidth, bottomMaskHeight)

LeftMaskRect(rotation, rawWidth, rawHeight, bottomMaskHeight, leftMaskWidth) ==
    CASE rotation = 90 ->
            Rect(0, 0, rawWidth - bottomMaskHeight, leftMaskWidth)
      [] rotation = 180 ->
            Rect(rawWidth - leftMaskWidth, 0, leftMaskWidth,
                 rawHeight - bottomMaskHeight)
      [] rotation = 270 ->
            Rect(bottomMaskHeight, rawHeight - leftMaskWidth,
                 rawWidth - bottomMaskHeight, leftMaskWidth)
      [] OTHER ->
            Rect(0, bottomMaskHeight, leftMaskWidth, rawHeight - bottomMaskHeight)

\* a variant that draws the left rectangle whatever the L-shape settings are
MaskRectsAlwaysLeft(page, mask) ==
    <<BottomMaskRect(page.rotation, page.rawWidth, page.rawHeight, mask.bottomHeight),
      LeftMaskRect(page.rotation, page.rawWidth, page.rawHeight,
                   mask.bottomHeight, mask.leftWidth)>>

\* the white rectangles drawn on one page, in drawing order
MaskRects(page, mask) ==
    <<BottomMaskRect(page.rotation, page.rawWidth, page.rawHeight, mask.bottomHeight)>>
    \o (IF mask.enableLShape /\ mask.leftWidth > 0
        THEN <<LeftMaskRect(page.rotation, page.rawWidth, page.rawHeight,
                            mask.bottomHeight, mask.leftWidth)>>
        ELSE <<>>)

\* a variant that swaps width and height whenever the draw rotation is not 0
ImageDrawSwapAll(imageBlock, page, ratio) ==
    LET drawWidth == ScaleBy(imageBlock.width, ratio)
        drawHeight == ScaleBy(imageBlock.height, ratio)
        blockX == ScaleBy(imageBlock.x, ratio)
        blockY == ScaleBy(imageBlock.y, ratio)
        rotation == page.rotation
        pdfX == CASE rotation = 90 -> blockY
                  [] rotation = 180 -> displayWidthOf(page) - blockX - drawWidth
                  [] rotation = 270 -> page.rawWidth - blockY - drawHeight
                  [] OTHER -> blockX
        pdfY == CASE rotation = 90 -> page.rawHeight - blockX - drawWidth
                  [] rotation = 180 -> blockY
                  [] rotation = 270 -> blockX
                  [] OTHER -> displayHeightOf(page) - blockY - drawHeight
        imageRotation == CASE rotation = 90 -> -90
                           [] rotation = 180 -> 180
                           [] rotation = 270 -> 90
                           [] OTHER -> 0
    IN  [field |-> imageBlock.field, x |-> pdfX, y |-> pdfY,
         width |-> IF imageRotation # 0 THEN drawHeight ELSE drawWidth,
         height |-> IF imageRotation # 0 THEN drawWidth ELSE drawHeight,
         rotate |-> imageRotation]

\* a variant that forgets to swap width and height on quarter turns
ImageDrawNoSwap(imageBlock, page, ratio) ==
    LET drawWidth == ScaleBy(imageBlock.width, ratio)
        drawHeight == ScaleBy(imageBlock.height, ratio)
        blockX == ScaleBy(imageBlock.x, ratio)
        blockY == ScaleBy(imageBlock.y, ratio)
    IN  [field |-> imageBlock.field, x |-> blockX,
         y |-> displayHeightOf(page) - blockY - drawHeight,
         width |-> drawWidth, height |-> drawHeight, rotate |-> 0]

\* the arguments of pdfPage.drawImage for one image block
ImageDraw(imageBlock, page, ratio) ==
    LET drawWidth == ScaleBy(imageBlock.width, ratio)
        drawHeight == ScaleBy(imageBlock.height, ratio)
        blockX == ScaleBy(imageBlock.x, ratio)
        blockY == ScaleBy(imageBlock.y, ratio)
        rotation == page.rotation
        pdfX == CASE rotation = 90 -> blockY
                  [] rotation = 180 -> displayWidthOf(page) - blockX - drawWidth
                  [] rotation = 270 -> page.rawWidth - blockY - drawHeight
                  [] OTHER -> blockX
        pdfY == CASE rotation = 90 -> page.rawHeight - blockX - drawWidth
                  [] rotation = 180 -> blockY
                  [] rotation = 270 -> blockX
                  [] OTHER -> displayHeightOf(page) - blockY - drawHeight
        imageRotation == CASE rotation = 90 -> -90
                           [] rotation = 180 -> 180
                           [] rotation = 270 -> 90
                           [] OTHER -> 0
        quarter == imageRotation = 90 \/ imageRotation = -90
    IN  [field |-> imageBlock.field, x |-> pdfX, y |-> pdfY,
         width |-> IF quarter THEN drawHeight ELSE drawWidth,
         height |-> IF quarter THEN drawWidth ELSE drawHeight,
         rotate |-> imageRotation]

\* imageBlock.field === 'logo' ? logo_url : line_qr_url
imageUrlOf(imageBlock, profile) ==
    IF imageBlock.field = "logo" THEN ProfileField(profile, "logo_url")
    ELSE ProfileField(profile, "line_qr_url")

ImageDrawn(block, profile, imageCache) ==
    /\ block.type = "image"
    /\ ~IsNull(profile)
    /\ TruthyStr(imageUrlOf(block, profile))
    /\ Val(imageUrlOf(block, profile)) \in imageCache

---------------------------------------------------------------------------
(* handleExport: text blocks *)

FEE_LABELS ==
    [fee_ratio_landlord |-> "kashinushi-futan", fee_ratio_tenant |-> "karinushi-futan",
     fee_distribution_motoduke |-> "motoduke-haibun",
     fee_distribution_kyakuzuke |-> "kyakuzuke-haibun"]

Digits == <<"0", "1", "2", "3", "4", "5", "6", "7", "8", "9">>
\* `${value}` for an integer percentage 0..100
NumStr(n) ==
    IF n < 10 THEN Digits[n + 1]
    ELSE IF n < 100 THEN Digits[(n \div 10) + 1] \o Digits[(n % 10) + 1]
    ELSE "100"

isFeeField(field) == field \in DOMAIN FEE_LABELS

\* a variant that skips a fee field whose value is falsy: 0 is not drawn
textContentOfTruthy(textBlock, profile) ==
    IF IsNull(profile) THEN Null
    ELSE IF isFeeField(textBlock.field)
    THEN LET value == Val(profile)[textBlock.field]
         IN  IF IsNull(value) \/ Val(value) = 0 THEN Null
             ELSE Some(FEE_LABELS[textBlock.field] \o ": " \o NumStr(Val(value)) \o "%")
    ELSE LET content == Val(profile)[textBlock.field]
         IN  IF TruthyStr(content) THEN content ELSE Null

\* the content of a text block: <<>> when the block is skipped, else <<string>>
textContentOf(textBlock, profile) ==
    IF IsNull(profile) THEN Null
    ELSE IF isFeeField(textBlock.field)
    THEN LET value == Val(profile)[textBlock.field]
         IN  IF IsNull(value) THEN Null
             ELSE Some(FEE_LABELS[textBlock.field] \o ": " \o NumStr(Val(value)) \o "%")
    ELSE LET content == Val(profile)[textBlock.field]
         IN  IF TruthyStr(content) THEN content ELSE Null

\* font.widthOfTextAtSize: every glyph of the embedded font advances one em
widthOfTextAtSize(content, fontSize) == Len(content) * fontSize

\* the arguments of pdfPage.drawText for one text block with content
TextDraw(textBlock, content, page, ratio) ==
    LET fontSize == ScaleBy(Px(textBlock.fontSize), ratio)
        textWidthPx == widthOfTextAtSize(content, fontSize)
        blockWidthPdf == ScaleBy(textBlock.width, ratio)
        blockX == ScaleBy(textBlock.x, ratio)
                  + (CASE textBlock.textAlign = "center" ->
                              (blockWidthPdf - textWidthPx) \div 2
                       [] textBlock.textAlign = "right" -> blockWidthPdf - textWidthPx
                       [] OTHER -> 0)
        baselineY == ScaleBy(textBlock.y + textBlock.height - Px(2), ratio)
        rotation == page.rotation
        pdfTextX == CASE rotation = 90 -> baselineY
                      [] rotation = 180 -> displayWidthOf(page) - blockX - textWidthPx
                      [] rotation = 270 -> page.rawWidth - baselineY
                      [] OTHER -> blockX
        pdfTextY == CASE rotation = 90 -> page.rawHeight - blockX - textWidthPx
                      [] rotation = 180 -> baselineY
                      [] rotation = 270 -> blockX
                      [] OTHER -> displayHeightOf(page) - baselineY
        textRotation == CASE rotation = 90 -> -90
                          [] rotation = 180 -> 180
                          [] rotation = 270 -> -90
                          [] OTHER -> 0
    IN  [field |-> textBlock.field, content |-> content, x |-> pdfTextX,
         y |-> pdfTextY, size |-> fontSize, bold |-> textBlock.fontWeight = "bold",
         rotate |-> textRotation]

---------------------------------------------------------------------------
(* handleExport *)

\* blocks[page.id] || []
pageBlocksOf(page, allBlocks) ==
    IF page.id \in DOMAIN allBlocks THEN allBlocks[page.id] ELSE <<>>

\* a variant that multiplies the mask sizes by scaleRatio like the blocks
ExportPageScaledMask(page, mask, pageBlocks, ratio, profile, imageCache) ==
    LET imageBlocks ==
            SelectSeq(pageBlocks, LAMBDA b : ImageDrawn(b, profile, imageCache))
        textBlocks ==
            SelectSeq(pageBlocks,
                LAMBDA b : b.type = "text" /\ ~IsNull(textContentOf(b, profile)))
        scaledMask == [mask EXCEPT !.bottomHeight = ScaleBy(mask.bottomHeight, ratio),
                                   !.leftWidth = ScaleBy(mask.leftWidth, ratio)]
    IN  [pageId |-> page.id, rawWidth |-> page.rawWidth,
         rawHeight |-> page.rawHeight, rotation |-> page.rotation,
         rects |-> MaskRects(page, scaledMask),
         images |-> [i \in 1..Len(imageBlocks) |->
                        ImageDraw(imageBlocks[i], page, ratio)],
         texts |-> [i \in 1..Len(textBlocks) |->
                       TextDraw(textBlocks[i], Val(textContentOf(textBlocks[i], profile)),
                                page, ratio)]]

\* everything drawn on the copy of one page
ExportPage(page, mask, pageBlocks, ratio, profile, imageCache) ==
    LET imageBlocks ==
            SelectSeq(pageBlocks, LAMBDA b : ImageDrawn(b, profile, imageCache))
        textBlocks ==
            SelectSeq(pageBlocks,
                LAMBDA b : b.type = "text" /\ ~IsNull(textContentOf(b, profile)))
    IN  [pageId |-> page.id, rawWidth |-> page.rawWidth,
         rawHeight |-> page.rawHeight, rotation |-> page.rotation,
         rects |-> MaskRects(page, mask),
         images |-> [i \in 1..Len(imageBlocks) |->
                        ImageDraw(imageBlocks[i], page, ratio)],
         texts |-> [i \in 1..Len(textBlocks) |->
                       TextDraw(textBlocks[i], Val(textContentOf(textBlocks[i], profile)),
                                page, ratio)]]

\* the URLs handleExport puts in imageCache, given the URLs that fetch and embed
imageCacheOf(profile, embeddable) ==
    { u \in embeddable :
        \/ ProfileField(profile, "logo_url") = Some(u)
        \/ ProfileField(profile, "line_qr_url") = Some(u) }

\* the pages of the merged document: pages without mask settings are skipped
ExportedPages(allPages, allMasks, allBlocks, allDimensions, profile, imageCache) ==
    LET masked == SelectSeq(allPages, LAMBDA pg : pg.id \in DOMAIN allMasks)
    IN  [i \in 1..Len(masked) |->
            ExportPage(masked[i], allMasks[masked[i].id],
                       pageBlocksOf(masked[i], allBlocks),
                       scaleRatioOf(masked[i], allDimensions), profile, imageCache)]

\* the outcome of handleExport: a downloaded document or a failure toast
handleExportResult(fontsOk, embeddable) ==
    IF ~fontsOk
    THEN [status |-> "failed", error |-> "font", document |-> <<>>]
    ELSE [status |-> "downloaded", error |-> "",
          document |-> ExportedPages(pages, maskSettings, blocks, pageDimensions,
                           companyProfile, imageCacheOf(companyProfile, embeddable))]

ImageUrls == {"logo.png", "qr.png"}

handleExport ==
    /\ step = "preview"
    /\ IsNull(dragging)
    /\ \E fontsOk \in BOOLEAN, embeddable \in SUBSET ImageUrls :
           exportLog' = Some(handleExportResult(fontsOk, embeddable))

---------------------------------------------------------------------------
(* MaskControls and EditorPage.handleMaskChange *)

maskStep == Px(10)

\* height and width the +/- buttons are allowed to reach in the model, in px
MaxMaskHeight == 150
MaxLeftWidth == 20

\* typed into a number input: <<>> is text parseInt turns into NaN
TypedHeights == {Null, Some(0 - 5), Some(140)}
TypedWidths == {Null, Some(0 - 5), Some(10)}

\* Math.max(0, parseInt(e.target.value) || 0)
parseNonNegative(typed) == IF IsNull(typed) THEN 0 ELSE Max(0, Px(Val(typed)))

currentMaskSettings == maskSettings[Val(selectedPageId)]

MaskControlsShown == step = "edit" /\ ~IsNull(selectedPageId)
                     /\ Val(selectedPageId) \in DOMAIN maskSettings

handleMaskChange(newSettings) ==
    maskSettings' = [maskSettings EXCEPT ![Val(selectedPageId)] = newSettings]

updateBottomHeight(delta) ==
    /\ MaskControlsShown
    /\ delta < 0 => currentMaskSettings.bottomHeight > 0
    /\ currentMaskSettings.bottomHeight + delta <= Px(MaxMaskHeight)
    /\ handleMaskChange([currentMaskSettings EXCEPT
           !.bottomHeight = Max(0, currentMaskSettings.bottomHeight + delta)])

typeBottomHeight(typed) ==
    /\ MaskControlsShown
    /\ handleMaskChange([currentMaskSettings EXCEPT
           !.bottomHeight = parseNonNegative(typed)])

updateLeftWidth(delta) ==
    /\ MaskControlsShown
    /\ currentMaskSettings.enableLShape
    /\ delta < 0 => currentMaskSettings.leftWidth > 0
    /\ currentMaskSettings.leftWidth + delta <= Px(MaxLeftWidth)
    /\ handleMaskChange([currentMaskSettings EXCEPT
           !.leftWidth = Max(0, currentMaskSettings.leftWidth + delta)])

typeLeftWidth(typed) ==
    /\ MaskControlsShown
    /\ currentMaskSettings.enableLShape
    /\ handleMaskChange([currentMaskSettings EXCEPT
           !.leftWidth = parseNonNegative(typed)])

toggleLShape ==
    /\ MaskControlsShown
    /\ handleMaskChange([currentMaskSettings EXCEPT
           !.enableLShape = ~currentMaskSettings.enableLShape])

---------------------------------------------------------------------------
(* EditorPage: pages, default mask settings, going to the preview *)

Page(id, rawWidth, rawHeight, rotation, status) ==
    [id |-> id, rawWidth |-> rawWidth, rawHeight |-> rawHeight,
     rotation |-> rotation, status |-> status]

defaultMaskSettings ==
    [bottomHeight |-> Px(100), leftWidth |-> 0, enableLShape |-> FALSE]

\* the rotation the preview renderer applies: multiples of 90 modulo 360
previewRotationOf(page) ==
    IF page.rotation % 90 = 0 THEN page.rotation % 360 ELSE 0

\* natural (scale 1) size of the page as the preview renders it
previewWidthOf(page) ==
    IF isRotated(previewRotationOf(page)) THEN page.rawHeight ELSE page.rawWidth
previewHeightOf(page) ==
    IF isRotated(previewRotationOf(page)) THEN page.rawWidth ELSE page.rawHeight

allCompleted ==
    Len(pages) > 0 /\ \A i \in 1..Len(pages) : pages[i].status = "done"

handleGoToPreview ==
    /\ step = "edit"
    /\ allCompleted
    /\ step' = IF IsNull(companyProfile) THEN step ELSE "preview"

---------------------------------------------------------------------------
(* PreviewEditor: mounting, page load, leaving *)

\* how often the preview is entered in the model
MaxMounts == 2

\* containerRef.current.clientWidth - 32
ContainerWidths == { Px(300), Px(900) }

\* what the mask controls and the preview leave alone: the page list, the
\* profile, a running export and the uploads that are still parsing
editorFrame == <<layoutArgs, layoutResult, pages, selectedPageId, companyProfile,
                 exportVars, uploads>>
previewState == <<currentPageIndex, scale, originalPageSize, maxWidth, dimensions,
                  pageDimensions, blocks, selectedBlockId, dragging, loadPending>>

currentPage == pages[currentPageIndex]
currentMask == maskSettings[currentPage.id]
currentBlocks == pageBlocksOf(currentPage, blocks)

\* { ...prev, [id]: value }
Put(map, id, value) ==
    [k \in DOMAIN map \cup {id} |-> IF k = id THEN value ELSE map[k]]

timesGenerated(id) == IF id \in DOMAIN generated THEN generated[id] ELSE 0

\* the useState initial values, and the container width the mount effect measures
MountPreviewEditor(width) ==
    /\ mounted' = mounted + 1
    /\ currentPageIndex' = 1
    /\ scale' = <<1, 1>>
    /\ originalPageSize' = 0
    /\ maxWidth' = width
    /\ dimensions' = [width |-> 0, height |-> 0]
    /\ pageDimensions' = <<>>
    /\ blocks' = <<>>
    /\ selectedBlockId' = Null
    /\ dragging' = Null
    /\ loadPending' = TRUE
    /\ edits' = 0

\* step leaves 'preview': the component and its state are discarded, the
\* exporting flag with them; a handleExport call that is running goes on
UnmountPreviewEditor ==
    /\ exporting' = FALSE
    /\ currentPageIndex' = 1
    /\ scale' = <<1, 1>>
    /\ originalPageSize' = 0
    /\ maxWidth' = 0
    /\ dimensions' = [width |-> 0, height |-> 0]
    /\ pageDimensions' = <<>>
    /\ blocks' = <<>>
    /\ selectedBlockId' = Null
    /\ dragging' = Null
    /\ loadPending' = FALSE
    /\ edits' = 0

onPageLoadSuccess ==
    LET id == currentPage.id
        pageWidth == ScaleBy(previewWidthOf(currentPage), scale)
        pageHeight == ScaleBy(previewHeightOf(currentPage), scale)
        origWidth == previewWidthOf(currentPage)
        first == originalPageSize = 0
    IN  /\ originalPageSize' = IF first THEN origWidth ELSE originalPageSize
        /\ IF first /\ maxWidth > 0 /\ origWidth > maxWidth
           THEN /\ scale' = Ratio(maxWidth, origWidth)
                /\ loadPending' = TRUE
                /\ UNCHANGED <<dimensions, pageDimensions, blocks, generated>>
           ELSE /\ dimensions' = [width |-> pageWidth, height |-> pageHeight]
                /\ pageDimensions' =
                       Put(pageDimensions, id, [width |-> pageWidth, height |-> pageHeight])
                /\ IF id \in DOMAIN blocks
                   THEN UNCHANGED <<blocks, generated>>
                   ELSE /\ blocks' = Put(blocks, id,
                               createInitialBlocks(id, pageWidth, pageHeight,
                                   ScaleBy(currentMask.bottomHeight, scale),
                                   ScaleBy(currentMask.leftWidth, scale),
                                   currentMask.enableLShape, companyProfile))
                        /\ generated' = Put(generated, id, timesGenerated(id) + 1)
                /\ loadPending' = FALSE
                /\ UNCHANGED scale

GoToPreview ==
    /\ handleGoToPreview
    /\ mounted < MaxMounts
    /\ IF IsNull(companyProfile)
       THEN UNCHANGED <<mounted, previewState, edits>>
       ELSE \E width \in ContainerWidths : MountPreviewEditor(width)
    /\ exportLog' = Null
    /\ UNCHANGED <<editorFrame, maskSettings, generated>>

PageLoad ==
    /\ step = "preview"
    /\ loadPending
    /\ maxWidth > 0
    /\ onPageLoadSuccess
    /\ exportLog' = Null
    /\ UNCHANGED <<editorFrame, step, maskSettings, mounted, currentPageIndex,
                   maxWidth, selectedBlockId, dragging, edits>>

Back ==
    /\ step = "preview"
    /\ IsNull(dragging)
    /\ step' = "edit"
    /\ UnmountPreviewEditor
    /\ exportLog' = Null
    /\ UNCHANGED <<layoutArgs, layoutResult, pages, selectedPageId, companyProfile,
                   pc, job, toasts, downloads, logRequests, attempts, uploads,
                   maskSettings, mounted, generated>>

ExportDocument ==
    /\ handleExport
    /\ UNCHANGED <<editorFrame, step, maskSettings, previewVars>>

---------------------------------------------------------------------------
(* Specification of the mask controls and the export of one page.  It     *)
(* starts in the preview, with a block list as page load and the user's   *)
(* edits can leave it; Back leads to the mask controls.                   *)

PageRotations == {0, 90, 180, 270, 0 - 90}
ExportRawSizes == { <<Px(140), Px(120)>>, <<Px(120), Px(140)>> }
ExportPageKinds ==
    { Page(1, sz[1], sz[2], r, "done") : sz \in ExportRawSizes, r \in PageRotations }
    \cup { Page(1, Px(600), Px(800), 0, "done") }

\* the mask settings the page was confirmed with
ExportMasks(pg) ==
    { defaultMaskSettings,
      [defaultMaskSettings EXCEPT !.bottomHeight = displayHeightOf(pg)] }

\* the preview states an export can find for page pg: not loaded yet, or
\* loaded at scale 1/den with the generated block list, or with that list
\* after the user deleted every block, or deleted all but the logo and made
\* the logo cover the page (edits counts the user's changes)
ExportPreviewInputs(pg, mask, profile) ==
    { [den |-> 1, dims |-> <<>>, blocks |-> <<>>, edits |-> 0] } \cup
    UNION { LET w == previewWidthOf(pg) \div den
                h == previewHeightOf(pg) \div den
                created == createInitialBlocks(pg.id, w, h,
                               mask.bottomHeight \div den, mask.leftWidth \div den,
                               mask.enableLShape, profile)
                loaded(list, n) ==
                    [den |-> den, dims |-> <<[width |-> w, height |-> h]>>,
                     blocks |-> <<list>>, edits |-> n]
            IN  { loaded(created, 0), loaded(<<>>, Len(created)) } \cup
                ( IF HasBlock(created, "logo")
                  THEN { loaded(<<ImageBlockRect(pg.id, "logo", 0, 0, w, h)>>,
                                Len(created) + 3) }
                  ELSE {} )
          : den \in {1, 2} }

InitExport ==
    /\ layoutArgs = Null /\ layoutResult = Null
    /\ step = "preview"
    /\ selectedPageId = Some(1)
    /\ \E pg \in ExportPageKinds,
          profile \in {Some(BasicProfile), Some(FullProfile)} :
         /\ pages = <<pg>>
         /\ companyProfile = profile
         /\ \E mask \in ExportMasks(pg) :
              /\ maskSettings = <<mask>>
              /\ \E in \in ExportPreviewInputs(pg, mask, profile) :
                   LET loaded == in.dims # <<>>
                       w == previewWidthOf(pg)
                   IN  /\ pageDimensions = in.dims
                       /\ blocks = in.blocks
                       /\ edits = in.edits
                       /\ generated = IF loaded THEN <<1>> ELSE <<>>
                       /\ loadPending = ~loaded
                       /\ dimensions = IF loaded THEN in.dims[1]
                                       ELSE [width |-> 0, height |-> 0]
                       /\ originalPageSize = IF loaded THEN w ELSE 0
                       /\ scale = IF in.den = 1 THEN <<1, 1>> ELSE Ratio(w \div in.den, w)
                       /\ maxWidth = IF in.den = 1 THEN Px(900) ELSE w \div in.den
    /\ mounted = 1 /\ currentPageIndex = 1
    /\ selectedBlockId = Null /\ dragging = Null
    /\ exportLog = Null
    /\ uploads = <<>>
    /\ ExportIdle

maskFrame == <<editorFrame, step, exportLog, previewVars>>

UpdateBottomHeight ==
    /\ \E delta \in {maskStep, 0 - maskStep} : updateBottomHeight(delta)
    /\ UNCHANGED maskFrame

TypeBottomHeight ==
    /\ \E typed \in TypedHeights : typeBottomHeight(typed)
    /\ UNCHANGED maskFrame

UpdateLeftWidth ==
    /\ \E delta \in {maskStep, 0 - maskStep} : updateLeftWidth(delta)
    /\ UNCHANGED maskFrame

TypeLeftWidth ==
    /\ \E typed \in TypedWidths : typeLeftWidth(typed)
    /\ UNCHANGED maskFrame

ToggleLShape ==
    /\ toggleLShape
    /\ UNCHANGED maskFrame

NextExport ==
    \/ UpdateBottomHeight \/ TypeBottomHeight \/ UpdateLeftWidth
    \/ TypeLeftWidth \/ ToggleLShape
    \/ GoToPreview \/ PageLoad \/ Back \/ ExportDocument

SpecExport == InitExport /\ [][NextExport]_vars

---------------------------------------------------------------------------
(* PreviewEditor: page navigation, BlockEditor and BlockProperties *)

\* how many moves, property changes and deletions the user makes in the model
MaxEdits == 1

\* length of the confirmed page list
MaxPages == 2

\* e.clientX - dragging.startX, e.clientY - dragging.startY
DragDeltas == { <<0 - Px(1000), 0 - Px(3)>>, <<Px(7), Px(1000)>> }

\* the blocks the user presses the mouse on
ClickedFields == { "company_name", "logo" }

\* typed into a number input: <<>> is text parseInt turns into NaN
TypedNumbers == { Null, Some(5000) }

\* parseInt(e.target.value) || fallback, in px
parseOr(typed, fallback) ==
    IF IsNull(typed) \/ Val(typed) = 0 THEN fallback ELSE Val(typed)

BlockEditorShown == step = "preview" /\ dimensions.width > 0

\* while a mouse button is held on a block the pointer reaches no other control
PointerFree == IsNull(dragging)

\* currentBlocks.find((b) => b.id === selectedBlockId) || null
selectedBlock ==
    LET found == SelectSeq(currentBlocks, LAMBDA b : Some(b.id) = selectedBlockId)
    IN  IF Len(found) = 0 THEN Null ELSE Some(found[1])

handleMouseDown(block) ==
    /\ selectedBlockId' = Some(block.id)
    /\ dragging' = Some([blockId |-> block.id, blockStartX |-> block.x,
                         blockStartY |-> block.y])

handleMouseMove(deltaX, deltaY) ==
    LET d == Val(dragging)
        canvasWidth == dimensions.width
        canvasHeight == dimensions.height
        moved(block) ==
            [block EXCEPT
                !.x = Max(0, Min(canvasWidth - block.width, d.blockStartX + deltaX)),
                !.y = Max(0, Min(canvasHeight - block.height, d.blockStartY + deltaY))]
    IN  blocks' = Put(blocks, currentPage.id,
                      [i \in 1..Len(currentBlocks) |->
                          IF currentBlocks[i].id = d.blockId
                          THEN moved(currentBlocks[i]) ELSE currentBlocks[i]])

handleBlockUpdate(updatedBlock) ==
    blocks' = Put(blocks, currentPage.id,
                  [i \in 1..Len(currentBlocks) |->
                      IF currentBlocks[i].id = updatedBlock.id
                      THEN updatedBlock ELSE currentBlocks[i]])

handleBlockDelete(id) ==
    /\ blocks' = Put(blocks, currentPage.id,
                     SelectSeq(currentBlocks, LAMBDA b : b.id # id))
    /\ selectedBlockId' = Null

\* the values BlockProperties passes to handleChange for a block
PropertyChanges(block) ==
    { [block EXCEPT !.x = Px(parseOr(typed, 0))] : typed \in TypedNumbers } \cup
    { [block EXCEPT !.y = Px(parseOr(typed, 0))] : typed \in TypedNumbers } \cup
    { [block EXCEPT !.width = Max(Px(20), Px(parseOr(typed, 20)))] :
        typed \in TypedNumbers } \cup
    { [block EXCEPT !.height = Max(Px(10), Px(parseOr(typed, 10)))] :
        typed \in TypedNumbers } \cup
    ( IF block.type # "text" THEN {}
      ELSE { [block EXCEPT !.fontSize = Max(8, block.fontSize - 1)],
             [block EXCEPT !.fontSize = block.fontSize + 1],
             [block EXCEPT !.fontWeight = "bold"],
             [block EXCEPT !.fontWeight = "normal"],
             [block EXCEPT !.textAlign = "center"],
             [block EXCEPT !.textAlign = "right"],
             [block EXCEPT !.textAlign = "left"] } \cup
           { [block EXCEPT !.fontSize = Max(8, parseOr(typed, 12))] :
               typed \in TypedNumbers } )

pageFrame == <<editorFrame, step, maskSettings, mounted, generated>>

PrevPage ==
    /\ step = "preview"
    /\ PointerFree
    /\ Len(pages) > 1
    /\ currentPageIndex # 1
    /\ currentPageIndex' = Max(1, currentPageIndex - 1)
    /\ loadPending' = TRUE
    /\ exportLog' = Null
    /\ UNCHANGED <<pageFrame, scale, originalPageSize, maxWidth, dimensions,
                   pageDimensions, blocks, selectedBlockId, dragging, edits>>

NextPage ==
    /\ step = "preview"
    /\ PointerFree
    /\ Len(pages) > 1
    /\ currentPageIndex # Len(pages)
    /\ currentPageIndex' = Min(Len(pages), currentPageIndex + 1)
    /\ loadPending' = TRUE
    /\ exportLog' = Null
    /\ UNCHANGED <<pageFrame, scale, originalPageSize, maxWidth, dimensions,
                   pageDimensions, blocks, selectedBlockId, dragging, edits>>

MouseDown ==
    /\ BlockEditorShown
    /\ PointerFree
    /\ \E i \in 1..Len(currentBlocks) :
           /\ currentBlocks[i].field \in ClickedFields
           /\ handleMouseDown(currentBlocks[i])
    /\ exportLog' = Null
    /\ UNCHANGED <<pageFrame, currentPageIndex, scale, originalPageSize, maxWidth,
                   dimensions, pageDimensions, blocks, loadPending, edits>>

MouseMove ==
    /\ BlockEditorShown
    /\ ~IsNull(dragging)
    /\ edits < MaxEdits
    /\ \E delta \in DragDeltas : handleMouseMove(delta[1], delta[2])
    /\ edits' = edits + 1
    /\ exportLog' = Null
    /\ UNCHANGED <<pageFrame, currentPageIndex, scale, originalPageSize, maxWidth,
                   dimensions, pageDimensions, selectedBlockId, dragging, loadPending>>

MouseUp ==
    /\ BlockEditorShown
    /\ ~IsNull(dragging)
    /\ dragging' = Null
    /\ exportLog' = Null
    /\ UNCHANGED <<pageFrame, currentPageIndex, scale, originalPageSize, maxWidth,
                   dimensions, pageDimensions, blocks, selectedBlockId, loadPending,
                   edits>>

\* the click that follows a mouse-up inside the editor reaches its container
ClickCanvas ==
    /\ BlockEditorShown
    /\ PointerFree
    /\ ~IsNull(selectedBlockId)
    /\ selectedBlockId' = Null
    /\ exportLog' = Null
    /\ UNCHANGED <<pageFrame, currentPageIndex, scale, originalPageSize, maxWidth,
                   dimensions, pageDimensions, blocks, dragging, loadPending, edits>>

PropertyChange ==
    /\ step = "preview"
    /\ PointerFree
    /\ ~IsNull(selectedBlock)
    /\ edits < MaxEdits
    /\ \E updatedBlock \in PropertyChanges(Val(selectedBlock)) :
           handleBlockUpdate(updatedBlock)
    /\ edits' = edits + 1
    /\ exportLog' = Null
    /\ UNCHANGED <<pageFrame, currentPageIndex, scale, originalPageSize, maxWidth,
                   dimensions, pageDimensions, selectedBlockId, dragging, loadPending>>

BlockDelete ==
    /\ step = "preview"
    /\ PointerFree
    /\ ~IsNull(selectedBlock)
    /\ edits < MaxEdits
    /\ handleBlockDelete(Val(selectedBlock).id)
    /\ edits' = edits + 1
    /\ exportLog' = Null
    /\ UNCHANGED <<pageFrame, currentPageIndex, scale, originalPageSize, maxWidth,
                   dimensions, pageDimensions, dragging, loadPending>>

---------------------------------------------------------------------------
(* Specification of the preview workflow: confirmed pages with the default *)
(* mask settings, preview, block edits, export, back                      *)

\* the uploaded pages: upright 600x800 pages alternate with pages stored
\* as 800x600 with a rotation of 90
UploadedPage(i) ==
    IF i % 2 = 1 THEN Page(i, Px(600), Px(800), 0, "done")
    ELSE Page(i, Px(800), Px(600), 90, "done")

ConfirmedPageLists == { [i \in 1..n |-> UploadedPage(i)] : n \in 1..MaxPages }

LogoProfile == [BasicProfile EXCEPT !.logo_url = Some("logo.png")]

Init ==
    /\ layoutArgs = Null /\ layoutResult = Null
    /\ step = "edit"
    /\ pages \in ConfirmedPageLists
    /\ selectedPageId = Some(1)
    /\ maskSettings = [i \in 1..Len(pages) |-> defaultMaskSettings]
    /\ companyProfile \in {Some(BasicProfile), Some(LogoProfile)}
    /\ exportLog = Null
    /\ uploads = <<>>
    /\ PreviewUnmounted
    /\ ExportIdle

Next ==
    \/ GoToPreview \/ PageLoad \/ PrevPage \/ NextPage
    \/ MouseDown \/ MouseMove \/ MouseUp \/ ClickCanvas
    \/ PropertyChange \/ BlockDelete
    \/ ExportDocument \/ Back

Spec == Init /\ [][Next]_vars

---------------------------------------------------------------------------
(* handleExport, one await at a time *)

\* how many times the export button is pressed in the model
MaxExports == 2

\* a fetch resolves with an ok response, resolves with a response that is
\* not ok, or rejects
FetchOutcomes == { "ok", "notOk", "rejected" }

\* embedImage: the image is fetched and embeds; the response is not ok or the
\* fetch rejects; the bytes are fetched and no embed call accepts them
ImageOutcomes == { "ok", "notFetched", "badBytes" }

exportFrame == <<layoutVars, step, pages, selectedPageId, maskSettings, companyProfile,
                 exportLog, previewVars, uploads>>

theJob == Val(job)

\* the props and state the handler of this render closed over, the locals of
\* the call (mergedPdf's fonts, images and pages, imageCache, i), and what
\* every await of the call has resolved to so far
NewJob ==
    [attempt |-> attempts + 1,
     pages |-> pages, maskSettings |-> maskSettings, blocks |-> blocks,
     pageDimensions |-> pageDimensions, companyProfile |-> companyProfile,
     fonts |-> <<>>, images |-> <<>>, imageCache |-> <<>>, merged |-> <<>>,
     drawn |-> 0, i |-> 1,
     seen |-> [fonts |-> <<>>, embedFonts |-> "pending", logo |-> "pending",
               qr |-> "pending", copies |-> <<>>, draws |-> <<>>, save |-> "pending"]]

jobInputs(j) ==
    [pages |-> j.pages, maskSettings |-> j.maskSettings, blocks |-> j.blocks,
     pageDimensions |-> j.pageDimensions, companyProfile |-> j.companyProfile]

\* a variant whose catch block downloads what was merged so far
exportCatchPartial(j) ==
    /\ toasts' = Append(toasts, "error")
    /\ downloads' = IF j.merged = <<>> THEN downloads
                    ELSE Append(downloads,
                             [attempt |-> j.attempt, inputs |-> jobInputs(j),
                              seen |-> j.seen, images |-> j.images,
                              document |-> j.merged])
    /\ job' = Some(j)
    /\ exporting' = FALSE
    /\ pc' = "idle"
    /\ UNCHANGED <<logRequests, attempts>>

\* catch: one error toast; finally: setExporting(false)
exportCatch(j) ==
    /\ toasts' = Append(toasts, "error")
    /\ job' = Some(j)
    /\ exporting' = FALSE
    /\ pc' = "idle"
    /\ UNCHANGED <<downloads, logRequests, attempts>>

\* the next await is reached
exportAwait(j, next) ==
    /\ job' = Some(j)
    /\ pc' = next
    /\ UNCHANGED <<exporting, toasts, downloads, logRequests, attempts>>

handleExportStart ==
    /\ step = "preview"
    /\ IsNull(dragging)
    /\ ~exporting
    /\ pc = "idle"
    /\ attempts < MaxExports
    /\ exporting' = TRUE
    /\ attempts' = attempts + 1
    /\ toasts' = <<>>
    /\ job' = Some(NewJob)
    /\ pc' = "fetchFonts"
    /\ UNCHANGED <<downloads, logRequests>>

\* a variant that checks the first response only
fontResponsesOkFirstOnly(regular, bold) == regular = "ok"

\* !(!fontResponse.ok || !fontBoldResponse.ok)
fontResponsesOk(regular, bold) == regular = "ok" /\ bold = "ok"

\* await Promise.all([fetch(fontUrl), fetch(fontBoldUrl)]) and the ok check
fetchFonts(regular, bold) ==
    LET j == [theJob EXCEPT !.seen.fonts = <<regular, bold>>]
    IN  IF regular = "rejected" \/ bold = "rejected" THEN exportCatch(j)
        ELSE IF ~fontResponsesOk(regular, bold) THEN exportCatch(j)
        ELSE exportAwait(j, "embedFonts")

\* arrayBuffer(), PDFDocument.create(), embedFont twice
embedFonts(ok) ==
    LET j == [theJob EXCEPT !.seen.embedFonts = IF ok THEN "ok" ELSE "threw"]
    IN  IF ~ok THEN exportCatch(j)
        ELSE exportAwait([j EXCEPT !.fonts = <<"regular", "bold">>], "embedLogo")

\* embedImage(pdfDoc, imageUrl): the images of the document afterwards, and
\* the image returned (<<>> is null)
embedImage(images, imageUrl, outcome) ==
    IF outcome = "ok"
    THEN [images |-> Append(images, imageUrl), image |-> Some(Len(images) + 1)]
    ELSE [images |-> images, image |-> Null]

\* if (companyProfile?.[field]) { embedImage; if (image) imageCache[url] = image }
preloadImage(j, field, outcome) ==
    LET url == ProfileField(j.companyProfile, field)
        r == embedImage(j.images, Val(url), outcome)
    IN  IF ~TruthyStr(url) THEN j
        ELSE [j EXCEPT !.images = r.images,
                       !.imageCache = IF IsNull(r.image) THEN j.imageCache
                                      ELSE Put(j.imageCache, Val(url), Val(r.image))]

embedLogo(outcome) ==
    LET j == preloadImage(theJob, "logo_url", outcome)
        used == TruthyStr(ProfileField(theJob.companyProfile, "logo_url"))
    IN  /\ ~used => outcome = "ok"
        /\ exportAwait([j EXCEPT !.seen.logo = IF used THEN outcome ELSE "none"],
                       "embedQr")

embedQr(outcome) ==
    LET j == preloadImage(theJob, "line_qr_url", outcome)
        used == TruthyStr(ProfileField(theJob.companyProfile, "line_qr_url"))
    IN  /\ ~used => outcome = "ok"
        /\ exportAwait([j EXCEPT !.seen.qr = IF used THEN outcome ELSE "none"],
                       "loadPage")

\* the copy of a page before anything is drawn on it
copiedPage(page) ==
    [pageId |-> page.id, rawWidth |-> page.rawWidth, rawHeight |-> page.rawHeight,
     rotation |-> page.rotation, rects |-> <<>>, images |-> <<>>, texts |-> <<>>]

\* a variant that puts the copy in front of the pages merged so far
addPageFirst(merged, copy) == <<copy>> \o merged

\* mergedPdf.addPage(copiedPage)
addPage(merged, copy) == Append(merged, copy)

\* the head of the page loop up to the copy: i past the end leads to save, a
\* page without mask settings is skipped, else PDFDocument.load and copyPages
loadPage(ok) ==
    LET j == theJob
        page == j.pages[j.i]
    IN  IF j.i > Len(j.pages)
        THEN ok /\ exportAwait(j, "save")
        ELSE IF page.id \notin DOMAIN j.maskSettings
        THEN ok /\ exportAwait([j EXCEPT !.i = j.i + 1], "loadPage")
        ELSE LET k == [j EXCEPT !.seen.copies = Append(j.seen.copies, ok)]
             IN  IF ~ok THEN exportCatch(k)
                 ELSE exportAwait([k EXCEPT !.merged = addPage(j.merged, copiedPage(page))],
                                  "drawPage")

\* a variant that lets the number of earlier downloads leak into the drawing
drawnPageCounting(j, page) ==
    LET e == ExportPage(page, j.maskSettings[page.id], pageBlocksOf(page, j.blocks),
                        scaleRatioOf(page, j.pageDimensions), j.companyProfile,
                        DOMAIN j.imageCache)
    IN  [e EXCEPT !.rects = [n \in 1..Len(e.rects) |->
                                [e.rects[n] EXCEPT !.height = @ + Len(downloads)]]]

\* what the rest of the loop body draws on the page it just added
drawnPage(j, page) ==
    ExportPage(page, j.maskSettings[page.id], pageBlocksOf(page, j.blocks),
               scaleRatioOf(page, j.pageDimensions), j.companyProfile,
               DOMAIN j.imageCache)

\* getPage(getPageCount() - 1), the mask rectangles, the image and the text
\* blocks; a draw call may throw
drawPage(ok) ==
    LET j == theJob
        page == j.pages[j.i]
        last == Len(j.merged)
        k == [j EXCEPT !.seen.draws = Append(j.seen.draws, ok)]
    IN  IF ~ok THEN exportCatch(k)
        ELSE exportAwait([k EXCEPT !.merged[last] = drawnPage(j, page),
                                   !.drawn = j.drawn + 1, !.i = j.i + 1],
                         "loadPage")

\* await mergedPdf.save()
savePdf(ok) ==
    LET j == [theJob EXCEPT !.seen.save = IF ok THEN "ok" ELSE "threw"]
    IN  IF ~ok THEN exportCatch(j) ELSE exportAwait(j, "download")

\* downloadFile, toast.success, the log-export fetch (not awaited), finally
deliver ==
    LET j == theJob
    IN  /\ downloads' = Append(downloads,
                           [attempt |-> j.attempt, inputs |-> jobInputs(j),
                            seen |-> j.seen, images |-> j.images,
                            document |-> j.merged])
        /\ toasts' = Append(toasts, "success")
        /\ logRequests' = Append(logRequests, "pending")
        /\ job' = Null
        /\ exporting' = FALSE
        /\ pc' = "idle"
        /\ UNCHANGED attempts

\* a variant that awaits the log request and throws when it fails
settleLogAwaited(n, outcome) ==
    /\ logRequests' = [logRequests EXCEPT ![n] = outcome]
    /\ toasts' = IF outcome = "ok" THEN toasts ELSE Append(toasts, "error")
    /\ UNCHANGED <<exporting, pc, job, downloads, attempts>>

\* the log-export promise settles: only a rejection runs a handler, and that
\* handler writes to the console
settleLog(n, outcome) ==
    /\ logRequests' = [logRequests EXCEPT ![n] = outcome]
    /\ UNCHANGED <<exporting, pc, job, toasts, downloads, attempts>>

LogOutcomes == { "ok", "error500", "rejected" }

StartExport == handleExportStart /\ UNCHANGED exportFrame

FetchFonts ==
    /\ pc = "fetchFonts"
    /\ \E regular \in FetchOutcomes, bold \in FetchOutcomes : fetchFonts(regular, bold)
    /\ UNCHANGED exportFrame

EmbedFonts ==
    /\ pc = "embedFonts"
    /\ \E ok \in BOOLEAN : embedFonts(ok)
    /\ UNCHANGED exportFrame

EmbedLogo ==
    /\ pc = "embedLogo"
    /\ \E outcome \in ImageOutcomes : embedLogo(outcome)
    /\ UNCHANGED exportFrame

EmbedQr ==
    /\ pc = "embedQr"
    /\ \E outcome \in ImageOutcomes : embedQr(outcome)
    /\ UNCHANGED exportFrame

LoadPage ==
    /\ pc = "loadPage"
    /\ \E ok \in BOOLEAN : loadPage(ok)
    /\ UNCHANGED exportFrame

DrawPage ==
    /\ pc = "drawPage"
    /\ \E ok \in BOOLEAN : drawPage(ok)
    /\ UNCHANGED exportFrame

SavePdf ==
    /\ pc = "save"
    /\ \E ok \in BOOLEAN : savePdf(ok)
    /\ UNCHANGED exportFrame

Deliver ==
    /\ pc = "download"
    /\ deliver
    /\ UNCHANGED exportFrame

SettleLog ==
    /\ \E n \in 1..Len(logRequests), outcome \in LogOutcomes :
           /\ logRequests[n] = "pending"
           /\ settleLog(n, outcome)
    /\ UNCHANGED exportFrame

\* a profile whose logo and LINE QR columns hold the same URL
SharedImageProfile ==
    [BasicProfile EXCEPT !.logo_url = Some("logo.png"), !.line_qr_url = Some("logo.png")]

PipelineProfiles ==
    { Some(BasicProfile), Some(FullProfile), Some(SharedImageProfile) }

\* the preview has just been mounted in a container wider than the pages:
\* no page has loaded yet
InitPipeline ==
    /\ layoutArgs = Null /\ layoutResult = Null
    /\ step = "preview"
    /\ pages \in ConfirmedPageLists
    /\ selectedPageId = Some(1)
    /\ maskSettings = [i \in 1..Len(pages) |-> defaultMaskSettings]
    /\ companyProfile \in PipelineProfiles
    /\ exportLog = Null
    /\ uploads = <<>>
    /\ mounted = 1
    /\ currentPageIndex = 1
    /\ scale = <<1, 1>>
    /\ originalPageSize = 0
    /\ maxWidth = Px(900)
    /\ dimensions = [width |-> 0, height |-> 0]
    /\ pageDimensions = <<>>
    /\ blocks = <<>>
    /\ selectedBlockId = Null
    /\ dragging = Null
    /\ loadPending = TRUE
    /\ edits = 0
    /\ generated = <<>>
    /\ ExportIdle

NextPipeline ==
    \/ PageLoad \/ NextPage
    \/ StartExport \/ FetchFonts \/ EmbedFonts \/ EmbedLogo \/ EmbedQr
    \/ LoadPage \/ DrawPage \/ SavePdf \/ Deliver \/ SettleLog

SpecPipeline == InitPipeline /\ [][NextPipeline]_vars

---------------------------------------------------------------------------
(* EditorPage: uploading, selecting and confirming pages *)

\* how many error toasts of handleFilesSelected the model follows
MaxParseErrors == 2

\* what getDocument gives for one file: the number of pages of the PDF, or 0
\* when the promise rejects (the file does not parse)
FileOutcomes == 0..2

\* the files of one handleFilesSelected call, in the order of the file list
Batches == { <<a>> : a \in FileOutcomes } \cup
           { <<a, b>> : a \in FileOutcomes, b \in FileOutcomes }

\* a variant whose catch block ends the loop: files after one that does not
\* parse are not read
RECURSIVE parsedCountUntilFailure(_)
parsedCountUntilFailure(files) ==
    IF files = <<>> \/ Head(files) = 0 THEN 0
    ELSE Head(files) + parsedCountUntilFailure(Tail(files))

\* newPages.length after the loop over the files: a file that does not parse
\* pushes nothing and the loop goes on
RECURSIVE parsedCount(_)
parsedCount(files) ==
    IF files = <<>> THEN 0 ELSE Head(files) + parsedCount(Tail(files))

\* the toast.error calls of the loop, one per file that does not parse
parseErrors(files) ==
    [k \in 1..Cardinality({ i \in 1..Len(files) : files[i] = 0 }) |-> "parseError"]

\* the page entries a call pushes for count parsed pages; ids follow the
\* entries already in the list (file ids carry Date.now(), taken to differ
\* between calls)
newPagesOf(first, count) ==
    [k \in 1..count |-> [UploadedPage(first + k - 1) EXCEPT !.status = "pending"]]

\* a variant that creates the settings of the first new page only
newMaskSettingsFirstOnly(newPages) ==
    [id \in {newPages[1].id} |-> defaultMaskSettings]

\* newPages.forEach((page) => { newMaskSettings[page.id] = {100, 0, false} })
newMaskSettings(newPages) ==
    [id \in {newPages[k].id : k \in 1..Len(newPages)} |-> defaultMaskSettings]

\* { ...prev, ...next }
Merge(prev, next) ==
    [k \in DOMAIN prev \cup DOMAIN next |->
        IF k \in DOMAIN next THEN next[k] ELSE prev[k]]

\* handleFilesSelected up to its first await: the call keeps the
\* selectedPageId of the render it was created in
handleFilesSelectedStart(files) ==
    uploads' = Append(uploads, [selectedPageId |-> selectedPageId, files |-> files])

\* a variant that changes the step only when it is still 'upload'
handleFilesSelectedDoneFromUpload(call) ==
    LET newPages == newPagesOf(Len(pages) + 1, parsedCount(call.files))
    IN  /\ toasts' = toasts \o parseErrors(call.files)
        /\ IF Len(newPages) = 0
           THEN UNCHANGED <<pages, maskSettings, selectedPageId, step>>
           ELSE /\ pages' = pages \o newPages
                /\ maskSettings' = Merge(maskSettings, newMaskSettings(newPages))
                /\ selectedPageId' = IF IsNull(call.selectedPageId)
                                     THEN Some(newPages[1].id) ELSE selectedPageId
                /\ step' = IF step = "upload" THEN "edit" ELSE step

\* handleFilesSelected after the files are parsed
handleFilesSelectedDone(call) ==
    LET newPages == newPagesOf(Len(pages) + 1, parsedCount(call.files))
    IN  /\ toasts' = toasts \o parseErrors(call.files)
        /\ IF Len(newPages) = 0
           THEN UNCHANGED <<pages, maskSettings, selectedPageId, step>>
           ELSE /\ pages' = pages \o newPages
                /\ maskSettings' = Merge(maskSettings, newMaskSettings(newPages))
                /\ selectedPageId' = IF IsNull(call.selectedPageId)
                                     THEN Some(newPages[1].id) ELSE selectedPageId
                /\ step' = "edit"

handleSelectPage(id) ==
    /\ selectedPageId' = Some(id)
    /\ pages' = [i \in 1..Len(pages) |->
                    IF pages[i].id = id /\ pages[i].status = "pending"
                    THEN [pages[i] EXCEPT !.status = "editing"]
                    ELSE IF pages[i].id # id /\ pages[i].status = "editing"
                    THEN [pages[i] EXCEPT !.status = "pending"]
                    ELSE pages[i]]

\* pages.findIndex((p) => p.id === selectedPageId), 0 when there is none
indexOfSelected ==
    LET found == { i \in 1..Len(pages) : Some(pages[i].id) = selectedPageId }
    IN  IF found = {} THEN 0 ELSE CHOOSE i \in found : \A k \in found : i <= k

handleConfirmPage ==
    LET later == { i \in 1..Len(pages) : i > indexOfSelected /\ pages[i].status # "done" }
        nextPage == CHOOSE i \in later : \A k \in later : i <= k
    IN  /\ ~IsNull(selectedPageId)
        /\ pages' = [i \in 1..Len(pages) |->
                        IF Some(pages[i].id) = selectedPageId
                        THEN [pages[i] EXCEPT !.status = "done"] ELSE pages[i]]
        /\ selectedPageId' = IF later = {} THEN selectedPageId
                             ELSE Some(pages[nextPage].id)

\* the button shown for a confirmed page puts it back to 'editing'
handleEditAgain ==
    pages' = [i \in 1..Len(pages) |->
                 IF Some(pages[i].id) = selectedPageId
                 THEN [pages[i] EXCEPT !.status = "editing"] ELSE pages[i]]

selectedPage == pages[indexOfSelected]

uploadFrame == <<layoutVars, companyProfile, exportLog, exportVars, previewVars>>

FilesSelected ==
    /\ step \in {"upload", "edit"}
    /\ Len(pages) + Len(uploads) < MaxPages
    /\ \E files \in Batches :
           /\ Len(pages) + parsedCount(files) <= MaxPages
           /\ handleFilesSelectedStart(files)
    /\ UNCHANGED <<uploadFrame, step, pages, selectedPageId, maskSettings>>

\* the call may finish after the user went on to the preview: setStep('edit')
\* then takes the preview down
FilesParsed ==
    /\ \E n \in 1..Len(uploads) :
           /\ Len(pages) + parsedCount(uploads[n].files) <= MaxPages
           /\ Len(toasts) + Len(parseErrors(uploads[n].files)) <= MaxParseErrors
           /\ handleFilesSelectedDone(uploads[n])
           /\ uploads' = SubSeq(uploads, 1, n - 1) \o SubSeq(uploads, n + 1, Len(uploads))
           /\ IF step = "preview" /\ parsedCount(uploads[n].files) > 0
              THEN UnmountPreviewEditor
              ELSE UNCHANGED <<previewState, edits, exporting>>
    /\ UNCHANGED <<layoutVars, companyProfile, exportLog, mounted, generated,
                   pc, job, downloads, logRequests, attempts>>

SelectPage ==
    /\ step = "edit"
    /\ \E i \in 1..Len(pages) : handleSelectPage(pages[i].id)
    /\ UNCHANGED <<uploadFrame, step, maskSettings, uploads>>

ConfirmPage ==
    /\ MaskControlsShown
    /\ selectedPage.status # "done"
    /\ handleConfirmPage
    /\ UNCHANGED <<uploadFrame, step, maskSettings, uploads>>

EditAgain ==
    /\ MaskControlsShown
    /\ selectedPage.status = "done"
    /\ handleEditAgain
    /\ UNCHANGED <<uploadFrame, step, selectedPageId, maskSettings, uploads>>

InitUpload ==
    /\ layoutArgs = Null /\ layoutResult = Null
    /\ step = "upload"
    /\ pages = <<>>
    /\ selectedPageId = Null
    /\ maskSettings = <<>>
    /\ companyProfile \in {Null, Some(BasicProfile)}
    /\ exportLog = Null
    /\ uploads = <<>>
    /\ PreviewUnmounted
    /\ ExportIdle

NextUpload ==
    \/ FilesSelected \/ FilesParsed \/ SelectPage \/ ConfirmPage \/ EditAgain
    \/ TypeBottomHeight \/ TypeLeftWidth \/ ToggleLShape
    \/ GoToPreview \/ Back

SpecUpload == InitUpload /\ [][NextUpload]_vars

---------------------------------------------------------------------------
(* Specification of the text content of an export: profiles with null and *)
(* empty strings and with fee values null, 0 and above                    *)

\* company_profiles rows: the text columns behind the generated blocks are
\* NOT NULL and may be empty, the fee columns are null or 0..100
ContentProfiles ==
    { Some([BasicProfile EXCEPT !.company_name = name, !.address = address,
                                !.fee_ratio_landlord = rl, !.fee_ratio_tenant = rt,
                                !.fee_distribution_motoduke = dm,
                                !.fee_distribution_kyakuzuke = dk]) :
        name \in {Some(""), Some("ABC")}, address \in {Some(""), Some("Tokyo")},
        rl \in {Null, Some(0), Some(50)}, rt \in {Null, Some(0)},
        dm \in {Null, Some(100)}, dk \in {Null, Some(7)} }

\* the preview has just been mounted in a container wider than the pages
InitContent ==
    /\ layoutArgs = Null /\ layoutResult = Null
    /\ step = "preview"
    /\ pages \in ConfirmedPageLists
    /\ selectedPageId = Some(1)
    /\ maskSettings = [i \in 1..Len(pages) |-> defaultMaskSettings]
    /\ companyProfile \in ContentProfiles
    /\ exportLog = Null
    /\ uploads = <<>>
    /\ mounted = 1
    /\ currentPageIndex = 1
    /\ scale = <<1, 1>>
    /\ originalPageSize = 0
    /\ maxWidth = Px(900)
    /\ dimensions = [width |-> 0, height |-> 0]
    /\ pageDimensions = <<>>
    /\ blocks = <<>>
    /\ selectedBlockId = Null
    /\ dragging = Null
    /\ loadPending = TRUE
    /\ edits = 0
    /\ generated = <<>>
    /\ ExportIdle

NextContent == PageLoad \/ NextPage \/ ExportDocument

SpecContent == InitContent /\ [][NextContent]_vars

---------------------------------------------------------------------------
(* Specification of an export and the Back button: the preview is left    *)
(* and entered again while handleExport is at an await.  The model        *)
(* follows one handleExport call at a time.  Every promise the call       *)
(* awaits settles, and a page that is rendered raises its load event.     *)

InitLeave ==
    /\ layoutArgs = Null /\ layoutResult = Null
    /\ step = "preview"
    /\ pages \in ConfirmedPageLists
    /\ selectedPageId = Some(1)
    /\ maskSettings = [i \in 1..Len(pages) |-> defaultMaskSettings]
    /\ companyProfile = Some(LogoProfile)
    /\ exportLog = Null
    /\ uploads = <<>>
    /\ mounted = 1
    /\ currentPageIndex = 1
    /\ scale = <<1, 1>>
    /\ originalPageSize = 0
    /\ maxWidth = Px(900)
    /\ dimensions = [width |-> 0, height |-> 0]
    /\ pageDimensions = <<>>
    /\ blocks = <<>>
    /\ selectedBlockId = Null
    /\ dragging = Null
    /\ loadPending = TRUE
    /\ edits = 0
    /\ generated = <<>>
    /\ ExportIdle

NextLeave ==
    \/ PageLoad \/ Back \/ GoToPreview
    \/ StartExport \/ FetchFonts \/ EmbedFonts \/ EmbedLogo \/ EmbedQr
    \/ LoadPage \/ DrawPage \/ SavePdf \/ Deliver \/ SettleLog

SpecLeave ==
    /\ InitLeave /\ [][NextLeave]_vars
    /\ WF_vars(PageLoad)
    /\ WF_vars(FetchFonts) /\ WF_vars(EmbedFonts) /\ WF_vars(EmbedLogo)
    /\ WF_vars(EmbedQr) /\ WF_vars(LoadPage) /\ WF_vars(DrawPage)
    /\ WF_vars(SavePdf) /\ WF_vars(Deliver) /\ WF_vars(SettleLog)

---------------------------------------------------------------------------
(* Rectangles *)

Right(b) == b.x + b.width
Bottom(b) == b.y + b.height

\* the interiors of two rectangles intersect
Overlap(a, b) ==
    /\ a.width > 0 /\ a.height > 0 /\ b.width > 0 /\ b.height > 0
    /\ a.x < Right(b) /\ b.x < Right(a)
    /\ a.y < Bottom(b) /\ b.y < Bottom(a)

\* rectangle a lies inside the rectangle [x, x+width] x [y, y+height]
Inside(a, x, y, width, height) ==
    /\ x <= a.x /\ Right(a) <= x + width
    /\ y <= a.y /\ Bottom(a) <= y + height

---------------------------------------------------------------------------
(* Claims about createInitialBlocks *)

GeneratedList == Val(layoutResult)

\* C4: no two blocks returned by createInitialBlocks have rectangles whose
\* interiors overlap, for every display size, mask setting and profile.
C4_NoOverlap ==
    ~IsNull(layoutResult) =>
        \A i, j \in 1..Len(GeneratedList) :
            i # j => ~Overlap(GeneratedList[i], GeneratedList[j])

\* C5: every block returned by createInitialBlocks lies inside the mask's
\* bottom band, for every maskBottomHeight >= 0.
C5_InsideBand ==
    ~IsNull(layoutResult) =>
        LET a == layoutArgs
            maskStartX == IF a.enableLShape THEN a.maskLeftWidth ELSE 0
        IN  \A i \in 1..Len(GeneratedList) :
                Inside(GeneratedList[i], maskStartX,
                       a.canvasHeight - a.maskBottomHeight,
                       a.canvasWidth - maskStartX, a.maskBottomHeight)

\* C8: the fee-ratio pair is emitted exactly when fee_ratio_landlord is
\* non-null, whatever fee_ratio_tenant is, and the fee-distribution pair
\* exactly when fee_distribution_motoduke is non-null.
C8_FeePairs ==
    ~IsNull(layoutResult) =>
        LET p == layoutArgs.profile
            ratio == ~IsNull(ProfileField(p, "fee_ratio_landlord"))
            dist == ~IsNull(ProfileField(p, "fee_distribution_motoduke"))
        IN  /\ HasBlock(GeneratedList, "fee_ratio_landlord") <=> ratio
            /\ HasBlock(GeneratedList, "fee_ratio_tenant") <=> ratio
            /\ HasBlock(GeneratedList, "fee_distribution_motoduke") <=> dist
            /\ HasBlock(GeneratedList, "fee_distribution_kyakuzuke") <=> dist

\* C8 witness: landlord ratio null, tenant ratio set, no fee-ratio block; and
\* the generator has run.
C8_Witness ==
    /\ ~IsNull(layoutResult)
    /\ ~IsNull(layoutArgs.profile)
    /\ IsNull(Val(layoutArgs.profile).fee_ratio_landlord)
    /\ ~IsNull(Val(layoutArgs.profile).fee_ratio_tenant)
    /\ ~HasBlock(GeneratedList, "fee_ratio_tenant")
    /\ HasBlock(GeneratedList, "company_name")

\* the font sizes of the generated list: that of the company name, and those
\* of the other text blocks
CompanyNameSizes ==
    { GeneratedList[i].fontSize : i \in { k \in 1..Len(GeneratedList) :
          GeneratedList[k].field = "company_name" } }
SmallSizes ==
    { GeneratedList[i].fontSize : i \in { k \in 1..Len(GeneratedList) :
          GeneratedList[k].type = "text" /\ GeneratedList[k].field # "company_name" } }

\* C25 as stated: the company-name font size is max(11, round(16 x
\* bottomHeight / 100)) and the small font size max(8, round(10 x
\* bottomHeight / 100)) for every bottomHeight, including heights above 100.
C25_FontSizesProportional ==
    ~IsNull(layoutResult) =>
        LET h == layoutArgs.maskBottomHeight
        IN  /\ CompanyNameSizes = { Max(11, RoundDiv(16 * h, Px(100))) }
            /\ SmallSizes = { Max(8, RoundDiv(10 * h, Px(100))) }

\* C25 amended: the company-name font size is max(11, round(16 x min(1,
\* bottomHeight / 100))) and the small font size max(8, round(10 x min(1,
\* bottomHeight / 100))): proportional to the mask height up to 100 px, with
\* floors 11/8, and 16/10 for every height of 100 px and above.
C25_FontSizesCapped ==
    ~IsNull(layoutResult) =>
        LET h == Min(layoutArgs.maskBottomHeight, Px(100))
        IN  /\ CompanyNameSizes = { Max(11, RoundDiv(16 * h, Px(100))) }
            /\ SmallSizes = { Max(8, RoundDiv(10 * h, Px(100))) }

\* C25 witness: the generator has run for a mask 150 px high and gave 16/10.
C25_Witness ==
    /\ ~IsNull(layoutResult)
    /\ layoutArgs.maskBottomHeight = Px(150)
    /\ CompanyNameSizes = {16}
    /\ SmallSizes = {10}

---------------------------------------------------------------------------
(* Claims about the export geometry (SpecExport) *)

Downloaded == ~IsNull(exportLog) /\ Val(exportLog).status = "downloaded"
ExportedDocument == Val(exportLog).document
\* the page and the mask settings an entry of the exported document came from
SourcePage(entry) == CHOOSE pg \in {pages[i] : i \in 1..Len(pages)} : pg.id = entry.pageId
SourceMask(entry) == maskSettings[entry.pageId]

\* C1: for a bottom band of height h, 0 <= h <= display height, the white
\* bottom rectangle drawn is {0,0,rawWidth,h} for rotation 0,
\* {0,rawHeight-h,rawWidth,h} for 180, {0,0,h,rawHeight} for 90 and
\* {rawWidth-h,0,h,rawHeight} for 270.
C1_BottomRect ==
    Downloaded =>
        \A i \in 1..Len(ExportedDocument) :
            LET e == ExportedDocument[i]
                pg == SourcePage(e)
                h == SourceMask(e).bottomHeight
                W == pg.rawWidth
                H == pg.rawHeight
            IN  (0 <= h /\ h <= displayHeightOf(pg)) =>
                    /\ (pg.rotation = 0 => e.rects[1] = Rect(0, 0, W, h))
                    /\ (pg.rotation = 180 => e.rects[1] = Rect(0, H - h, W, h))
                    /\ (pg.rotation = 90 => e.rects[1] = Rect(0, 0, h, H))
                    /\ (pg.rotation = 270 => e.rects[1] = Rect(W - h, 0, h, H))

\* C1 witness: a page rotated 270 was exported with a band lower than the page
C1_Witness ==
    /\ Downloaded
    /\ Len(ExportedDocument) = 1
    /\ pages[1].rotation = 270
    /\ maskSettings[1].bottomHeight = Px(110)
    /\ ExportedDocument[1].rects[1].x = pages[1].rawWidth - Px(110)

\* the full-page rectangle of a page in the coordinates its blocks are kept in
IsFullPageImage(block, pg) ==
    /\ block.type = "image"
    /\ block.x = 0 /\ block.y = 0
    /\ block.width = dimsOf(pg, pageDimensions).width
    /\ block.height = dimsOf(pg, pageDimensions).height

\* C2: for each supported rotation, the full-page display rectangle maps to
\* the PDF rectangle {0,0,rawWidth,rawHeight}, both through the mask mapping
\* (bottomHeight = displayHeight) and through the image block mapping.
C2_FullPage ==
    Downloaded =>
        \A i \in 1..Len(ExportedDocument) :
            LET e == ExportedDocument[i]
                pg == SourcePage(e)
                list == pageBlocksOf(pg, blocks)
                full == Rect(0, 0, pg.rawWidth, pg.rawHeight)
                fullBand == SourceMask(e).bottomHeight = displayHeightOf(pg)
                fullImage == /\ Len(list) = 1
                             /\ IsFullPageImage(list[1], pg)
                             /\ Len(e.images) = 1
                drawn == Rect(e.images[1].x, e.images[1].y,
                              e.images[1].width, e.images[1].height)
            IN  pg.rotation \in SupportedRotations =>
                    /\ (fullBand => e.rects[1] = full)
                    /\ (fullImage => drawn = full)

\* C2 witness: a page rotated 90, previewed at half size, exported with a
\* full-height band and a full-page image block that was drawn
C2_Witness ==
    /\ Downloaded
    /\ pages[1].rotation = 90
    /\ maskSettings[1].bottomHeight = displayHeightOf(pages[1])
    /\ dimsOf(pages[1], pageDimensions).width * 2 = displayWidthOf(pages[1])
    /\ Len(pageBlocksOf(pages[1], blocks)) = 1
    /\ IsFullPageImage(pageBlocksOf(pages[1], blocks)[1], pages[1])
    /\ Len(ExportedDocument[1].images) = 1

\* C3: when a page declares a rotation outside {0,90,180,270} the export
\* fails (with UnsupportedRotation, unless it already failed loading the
\* fonts) and produces no output: nothing is drawn for a supported rotation.
C3_UnsupportedRotationRejected ==
    LET unsupported ==
            \E i \in 1..Len(pages) : pages[i].rotation \notin SupportedRotations
        rejected ==
            /\ Val(exportLog).status = "failed"
            /\ Val(exportLog).error \in {"UnsupportedRotation", "font"}
            /\ Val(exportLog).document = <<>>
    IN  (~IsNull(exportLog) /\ unsupported) => rejected

\* C6: after any sequence of mask-control adjustments followed by an export,
\* no mask rectangle drawn has a negative width or height and none extends
\* outside the page.
C6_MaskRectsInsidePage ==
    Downloaded =>
        \A i \in 1..Len(ExportedDocument) :
            LET e == ExportedDocument[i]
            IN  e.rotation \in SupportedRotations =>
                    \A k \in 1..Len(e.rects) :
                        /\ e.rects[k].width >= 0 /\ e.rects[k].height >= 0
                        /\ Inside(e.rects[k], 0, 0, e.rawWidth, e.rawHeight)

\* C7 scenario: one unrotated 600x800 page with the default mask (bottom
\* height 100, no L-shape) and the basic profile, displayed at 600x800, its
\* block list as page load generated it
C7_Scenario ==
    /\ pages = <<Page(1, Px(600), Px(800), 0, "done")>>
    /\ maskSettings = <<[bottomHeight |-> Px(100), leftWidth |-> 0,
                         enableLShape |-> FALSE]>>
    /\ companyProfile = Some(BasicProfile)
    /\ pageDimensions = <<[width |-> Px(600), height |-> Px(800)]>>
    /\ DOMAIN blocks = {1}
    /\ edits = 0

\* C7: in that scenario layout generation produces exactly 5 text blocks, all
\* inside the display rectangle {0,700,600,100}, and the export draws exactly
\* one white rectangle on the page, {0,0,600,100} in PDF space.
C7_BasicLayoutAndMask ==
    C7_Scenario =>
        /\ Len(blocks[1]) = 5
        /\ \A i \in 1..Len(blocks[1]) :
               /\ blocks[1][i].type = "text"
               /\ Inside(blocks[1][i], 0, Px(700), Px(600), Px(100))
        /\ Downloaded =>
               /\ Len(ExportedDocument) = 1
               /\ ExportedDocument[1].rects = <<Rect(0, 0, Px(600), Px(100))>>

\* C7 witness: the scenario after a second visit of the preview, where page
\* load generated the list, and an export that drew the five texts
C7_Witness ==
    /\ C7_Scenario
    /\ mounted = 2
    /\ generated = <<1>>
    /\ Downloaded
    /\ Len(ExportedDocument[1].texts) = 5

\* the display-space bottom band and left strip of a page, top-left origin
DisplayBottomBand(pg, mask) ==
    Rect(0, displayHeightOf(pg) - mask.bottomHeight, displayWidthOf(pg),
         mask.bottomHeight)
DisplayLeftStrip(pg, mask) ==
    Rect(0, 0, mask.leftWidth, displayHeightOf(pg) - mask.bottomHeight)

\* the PDF-space image of a display rectangle when the display bottom is the
\* raw bottom edge (0), left edge (90), top edge (180) or right edge (270)
\* and the display left is the raw left, bottom, right or top edge
ExpectedPdfRect(r, rotation, rawWidth, rawHeight) ==
    CASE rotation = 90 -> Rect(rawWidth - r.y - r.height, r.x, r.height, r.width)
      [] rotation = 180 -> Rect(rawWidth - r.x - r.width, r.y, r.width, r.height)
      [] rotation = 270 -> Rect(r.y, rawHeight - r.x - r.width, r.height, r.width)
      [] OTHER -> Rect(r.x, rawHeight - r.y - r.height, r.width, r.height)

MaskFitsPage(pg, mask) ==
    /\ mask.bottomHeight <= displayHeightOf(pg)
    /\ mask.leftWidth <= displayWidthOf(pg)

\* C19: with the L-shape on and leftWidth > 0, for every supported rotation
\* the bottom and the left rectangle drawn do not overlap and are the images
\* of the display bottom band and of the display left strip (from the top
\* of the page down to the start of the band).
C19_LShapeCoversDisplayL ==
    Downloaded =>
        \A i \in 1..Len(ExportedDocument) :
            LET e == ExportedDocument[i]
                pg == SourcePage(e)
                mask == SourceMask(e)
            IN  (/\ e.rotation \in SupportedRotations
                 /\ mask.enableLShape /\ mask.leftWidth > 0
                 /\ MaskFitsPage(pg, mask)) =>
                    /\ Len(e.rects) = 2
                    /\ ~Overlap(e.rects[1], e.rects[2])
                    /\ e.rects[1] = ExpectedPdfRect(DisplayBottomBand(pg, mask),
                                        e.rotation, e.rawWidth, e.rawHeight)
                    /\ e.rects[2] = ExpectedPdfRect(DisplayLeftStrip(pg, mask),
                                        e.rotation, e.rawWidth, e.rawHeight)

\* the point (x, y) lies in the closed rectangle r
PointIn(x, y, r) ==
    /\ r.x <= x /\ x <= r.x + r.width
    /\ r.y <= y /\ y <= r.y + r.height

\* a block at the size the export draws it, in display space
DisplayRectOf(b, ratio) ==
    Rect(ScaleBy(b.x, ratio), ScaleBy(b.y, ratio), ScaleBy(b.width, ratio),
         ScaleBy(b.height, ratio))

\* the text of a block is no wider than the block
TextFits(b, content, ratio) ==
    widthOfTextAtSize(content, ScaleBy(Px(b.fontSize), ratio)) <= ScaleBy(b.width, ratio)

\* C20: for every supported rotation, a block that lies inside the display
\* bottom band (its text, if any, no wider than the block) is drawn with its
\* image origin, or its text anchor, inside the bottom mask rectangle drawn
\* on the same page.
C20_BlocksLandInBottomMask ==
    Downloaded =>
        \A i \in 1..Len(ExportedDocument) :
            LET e == ExportedDocument[i]
                pg == SourcePage(e)
                mask == SourceMask(e)
                ratio == scaleRatioOf(pg, pageDimensions)
                band == DisplayBottomBand(pg, mask)
                list == pageBlocksOf(pg, blocks)
                inBand(b) == /\ b.width > 0 /\ b.height > 0
                             /\ Inside(DisplayRectOf(b, ratio), band.x, band.y,
                                       band.width, band.height)
            IN  (e.rotation \in SupportedRotations /\ MaskFitsPage(pg, mask)) =>
                    \A n \in 1..Len(list) :
                        LET b == list[n]
                            image == ImageDraw(b, pg, ratio)
                            content == textContentOf(b, companyProfile)
                            text == TextDraw(b, Val(content), pg, ratio)
                        IN  /\ (/\ b.type = "image" /\ inBand(b)
                                /\ \E k \in 1..Len(e.images) : e.images[k] = image) =>
                                   PointIn(image.x, image.y, e.rects[1])
                            /\ (/\ b.type = "text" /\ inBand(b)
                                /\ ~IsNull(content)
                                /\ TextFits(b, Val(content), ratio)) =>
                                   PointIn(text.x, text.y, e.rects[1])

\* the angle, counter-clockwise, by which a glyph run drawn with rotate:
\* degrees(textRotation) appears turned once the viewer has turned the page
\* clockwise by its /Rotate entry
viewedAngle(textRotation, rotation) == (textRotation - rotation) % 360

\* C21: a text block is drawn with a rotation of 0, -90, 180, -90 degrees for
\* page rotations 0, 90, 180, 270, and with that rotation the glyph run reads
\* upright in the viewer: the drawn rotation cancels the rotation the viewer
\* applies to the page.
C21_TextReadsUpright ==
    Downloaded =>
        \A i \in 1..Len(ExportedDocument) :
            LET e == ExportedDocument[i]
                expected == CASE e.rotation = 90 -> 0 - 90
                              [] e.rotation = 180 -> 180
                              [] e.rotation = 270 -> 0 - 90
                              [] OTHER -> 0
            IN  e.rotation \in SupportedRotations =>
                    \A k \in 1..Len(e.texts) :
                        /\ e.texts[k].rotate = expected
                        /\ viewedAngle(e.texts[k].rotate, e.rotation) = 0

\* the image blocks of a page that have the field of an image draw
BlocksOfDraw(d, list) ==
    { n \in 1..Len(list) : list[n].type = "image" /\ list[n].field = d.field }

\* the width and height of draw d are those of block b at the export scale,
\* as they are or exchanged
DrawnUnswapped(d, b, ratio) ==
    d.width = ScaleBy(b.width, ratio) /\ d.height = ScaleBy(b.height, ratio)
DrawnSwapped(d, b, ratio) ==
    d.width = ScaleBy(b.height, ratio) /\ d.height = ScaleBy(b.width, ratio)

\* every image draw of the exported document with a supported page rotation
\* satisfies Sizes(draw, block, ratio, rotation)
AllImageDraws(Sizes(_, _, _, _)) ==
    \A i \in 1..Len(ExportedDocument) :
        LET e == ExportedDocument[i]
            pg == SourcePage(e)
            list == pageBlocksOf(pg, blocks)
            ratio == scaleRatioOf(pg, pageDimensions)
        IN  e.rotation \in SupportedRotations =>
                \A k \in 1..Len(e.images) :
                    /\ BlocksOfDraw(e.images[k], list) # {}
                    /\ \A n \in BlocksOfDraw(e.images[k], list) :
                           Sizes(e.images[k], list[n], ratio, e.rotation)

\* C22 as stated: for an image block drawn on a page whose draw rotation is
\* non-zero (page rotation 90, 180 or 270) the width and height passed to the
\* draw call are the block's scaled width and height swapped; for page
\* rotation 0 they are passed unswapped.
C22_SwappedWheneverRotated ==
    Downloaded =>
        AllImageDraws(LAMBDA d, b, ratio, rotation :
            IF rotation = 0 THEN DrawnUnswapped(d, b, ratio)
            ELSE DrawnSwapped(d, b, ratio))

\* C22 amended: the width and height passed are swapped for page rotations
\* 90 and 270 (draw rotation -90 and 90), and passed unswapped for page
\* rotations 0 and 180.
C22_SwappedOnQuarterTurns ==
    Downloaded =>
        AllImageDraws(LAMBDA d, b, ratio, rotation :
            /\ d.rotate = (CASE rotation = 90 -> 0 - 90 [] rotation = 180 -> 180
                             [] rotation = 270 -> 90 [] OTHER -> 0)
            /\ IF isRotated(rotation) THEN DrawnSwapped(d, b, ratio)
               ELSE DrawnUnswapped(d, b, ratio))

\* C22 witness: a page rotated 180 previewed at half size, whose only block
\* is a logo wider than high, exported with the logo drawn at rotation 180
\* and its scaled width and height unswapped.
C22_Witness ==
    /\ Downloaded
    /\ pages[1].rotation = 180
    /\ pages[1].rawWidth = Px(140)
    /\ dimsOf(pages[1], pageDimensions).width = Px(70)
    /\ Len(ExportedDocument[1].images) = 1
    /\ ExportedDocument[1].images[1].rotate = 180
    /\ ExportedDocument[1].images[1].width = Px(140)
    /\ ExportedDocument[1].images[1].height = Px(120)

\* the preview width recorded for a page, or its display width when none was
storedDisplayWidthOf(pg) ==
    IF pg.id \in DOMAIN pageDimensions THEN pageDimensions[pg.id].width
    ELSE displayWidthOf(pg)

\* drawn = authored x displayWidth / storedDisplayWidth, the quotient taken
\* in lowest terms
ScaledByRatio(drawn, authored, pg) ==
    LET q == Ratio(displayWidthOf(pg), storedDisplayWidthOf(pg))
    IN  drawn * q[2] = authored * q[1]

\* the thickness of the bottom rectangle and of the left rectangle drawn
BandThickness(e) ==
    IF isRotated(e.rotation) THEN e.rects[1].width ELSE e.rects[1].height
StripThickness(e) ==
    IF isRotated(e.rotation) THEN e.rects[2].height ELSE e.rects[2].width

\* font sizes, image sizes and the text block widths behind the alignment
\* offset are the authored values times displayWidth / storedDisplayWidth
BlocksScaledByRatio(e) ==
    LET pg == SourcePage(e)
        list == pageBlocksOf(pg, blocks)
    IN  /\ \A k \in 1..Len(e.texts) :
               \A n \in 1..Len(list) :
                   (list[n].type = "text" /\ list[n].field = e.texts[k].field) =>
                       ScaledByRatio(e.texts[k].size, Px(list[n].fontSize), pg)
        /\ \A k \in 1..Len(e.images) :
               \A n \in BlocksOfDraw(e.images[k], list) :
                   /\ ScaledByRatio(IF isRotated(e.rotation) THEN e.images[k].height
                                    ELSE e.images[k].width, list[n].width, pg)
                   /\ ScaledByRatio(IF isRotated(e.rotation) THEN e.images[k].width
                                    ELSE e.images[k].height, list[n].height, pg)

\* C23 as stated: scaleRatio = displayWidth / storedDisplayWidth is applied
\* to block sizes and font sizes, and the mask rectangles are drawn from
\* mask.bottomHeight x scaleRatio and mask.leftWidth x scaleRatio.
C23_MaskScaledLikeBlocks ==
    Downloaded =>
        \A i \in 1..Len(ExportedDocument) :
            LET e == ExportedDocument[i]
                pg == SourcePage(e)
                mask == SourceMask(e)
            IN  e.rotation \in SupportedRotations =>
                    /\ BlocksScaledByRatio(e)
                    /\ ScaledByRatio(BandThickness(e), mask.bottomHeight, pg)
                    /\ Len(e.rects) = 2 =>
                           ScaledByRatio(StripThickness(e), mask.leftWidth, pg)

\* C23 amended: scaleRatio = displayWidth / storedDisplayWidth is applied to
\* block sizes and font sizes; the mask rectangles are drawn from
\* mask.bottomHeight and mask.leftWidth as stored, without the ratio.
C23_MaskInPageUnits ==
    Downloaded =>
        \A i \in 1..Len(ExportedDocument) :
            LET e == ExportedDocument[i]
                mask == SourceMask(e)
            IN  e.rotation \in SupportedRotations =>
                    /\ BlocksScaledByRatio(e)
                    /\ BandThickness(e) = mask.bottomHeight
                    /\ Len(e.rects) = 2 => StripThickness(e) = mask.leftWidth

\* C23 witness: a 600x800 page previewed at width 300 with an L-shaped mask
\* 100 high and 10 wide, exported: five texts drawn at twice their authored
\* size, the mask rectangles 100 and 10 thick.
C23_Witness ==
    /\ Downloaded
    /\ pages[1].rawWidth = Px(600)
    /\ storedDisplayWidthOf(pages[1]) = Px(300)
    /\ maskSettings[1] = [bottomHeight |-> Px(100), leftWidth |-> Px(10),
                          enableLShape |-> TRUE]
    /\ Len(ExportedDocument[1].rects) = 2
    /\ BandThickness(ExportedDocument[1]) = Px(100)
    /\ StripThickness(ExportedDocument[1]) = Px(10)
    /\ Len(ExportedDocument[1].texts) = 5
    /\ ExportedDocument[1].texts[1].size = 2 * Px(pageBlocksOf(pages[1], blocks)[1].fontSize)

---------------------------------------------------------------------------
(* Claims about the preview workflow (Spec) *)

\* every block of every displayed page lies inside the page's display rectangle
AllBlocksInside ==
    \A p \in DOMAIN blocks \cap DOMAIN pageDimensions :
        \A i \in 1..Len(blocks[p]) :
            Inside(blocks[p][i], 0, 0, pageDimensions[p].width,
                   pageDimensions[p].height)

\* C9: a user edit (moving a block, changing x, y, width or height in the
\* properties panel) never takes a block out of the page's display rectangle
\* {0,0,displayWidth,displayHeight}: if every block is inside before the
\* edit, every block is inside after it.
C9_EditsKeepBlocksInside ==
    [][(edits' # edits /\ AllBlocksInside) => AllBlocksInside']_vars

\* C10: the block list of a page is created exactly once, the first time the
\* page's load event is handled in a preview session; no later page-load
\* event (navigation, re-render, returning to the preview after going back
\* to the edit step) creates it again.
C10_CreatedOnce ==
    \A p \in DOMAIN generated : generated[p] <= 1

---------------------------------------------------------------------------
(* Claims about the steps of one export (SpecPipeline) *)

Running == pc # "idle"
\* the handleExport call of the latest attempt ended in its catch block
Threw == pc = "idle" /\ ~IsNull(job)
Delivered(n) == \E k \in 1..Len(downloads) : downloads[k].attempt = n

\* every await of a call resolved without a throw
NoStepFailed(seen) ==
    /\ seen.fonts = <<"ok", "ok">>
    /\ seen.embedFonts = "ok"
    /\ \A k \in 1..Len(seen.copies) : seen.copies[k]
    /\ \A k \in 1..Len(seen.draws) : seen.draws[k]
    /\ seen.save = "ok"

\* a step of the call threw or a font response was not ok
SomeStepFailed(seen) ==
    \/ seen.fonts # <<>> /\ seen.fonts # <<"ok", "ok">>
    \/ seen.embedFonts = "threw"
    \/ \E k \in 1..Len(seen.copies) : ~seen.copies[k]
    \/ \E k \in 1..Len(seen.draws) : ~seen.draws[k]
    \/ seen.save = "threw"

\* C11: when a step of an export fails (font fetch or embed, loading or
\* copying a source page, drawing on a page, saving), nothing is downloaded
\* for that attempt and exactly one error toast is shown; every document
\* that is downloaded comes from a call in which no step failed and holds a
\* drawn copy of every page of the list.
C11_FailureDeliversNothing ==
    /\ \A n \in 1..Len(downloads) :
           LET d == downloads[n]
           IN  /\ NoStepFailed(d.seen)
               /\ Len(d.document) = Len(d.inputs.pages)
               /\ Len(d.seen.draws) = Len(d.document)
    /\ ~IsNull(job) /\ SomeStepFailed(theJob.seen) =>
           /\ Threw
           /\ toasts = <<"error">>
           /\ ~Delivered(theJob.attempt)
    /\ Threw => SomeStepFailed(theJob.seen)
    /\ Running => toasts = <<>> /\ ~Delivered(theJob.attempt)

\* C11 witness: the copy of the second page failed after the first page had
\* been merged and drawn; one error toast, nothing downloaded.
C11_Witness ==
    /\ Threw
    /\ theJob.seen.copies = <<TRUE, FALSE>>
    /\ Len(theJob.merged) = 1
    /\ toasts = <<"error">>
    /\ downloads = <<>>

\* C12: no page is copied into the merged document before both font fetches
\* answered ok, both fonts are embedded and the logo and QR preloads have
\* finished; when a font fetch fails the call ends with no page merged.
C12_PreloadBeforePages ==
    ~IsNull(job) =>
        /\ theJob.merged # <<>> =>
               /\ theJob.seen.fonts = <<"ok", "ok">>
               /\ theJob.fonts = <<"regular", "bold">>
               /\ theJob.seen.logo # "pending"
               /\ theJob.seen.qr # "pending"
        /\ (theJob.seen.fonts # <<>> /\ theJob.seen.fonts # <<"ok", "ok">>) =>
               /\ Threw
               /\ theJob.merged = <<>>
               /\ theJob.seen.copies = <<>>

\* C12 witness: the first page has just been copied, after the fonts were
\* embedded and the logo preload had failed to fetch.
C12_Witness ==
    /\ pc = "drawPage"
    /\ Len(theJob.merged) = 1
    /\ theJob.fonts = <<"regular", "bold">>
    /\ theJob.seen.logo = "notFetched"

\* the image draws of a document that use the URL of a profile field
DrawsOfField(d, field) ==
    { <<k, n>> \in (1..Len(d.document)) \X (1..2) :
        /\ n <= Len(d.document[k].images)
        /\ d.document[k].images[n].field = field }

\* C13: an image that cannot be fetched is skipped and the export still
\* completes; an image whose bytes were fetched and whose embed call fails
\* aborts the export, so no downloaded document comes from a call that saw
\* such an image.
C13_EmbedFailureIsFatal ==
    \A n \in 1..Len(downloads) :
        LET d == downloads[n]
        IN  /\ d.seen.logo # "badBytes" /\ d.seen.qr # "badBytes"
            /\ d.seen.logo = "notFetched" /\ d.seen.qr # "ok" =>
                   DrawsOfField(d, "logo") = {}

\* C14: one export call embeds each distinct image URL at most once.
C14_EachUrlEmbeddedOnce ==
    ~IsNull(job) =>
        \A a \in 1..Len(theJob.images), b \in 1..Len(theJob.images) :
            theJob.images[a] = theJob.images[b] => a = b

\* a page of the merged document on which the loop body has drawn
IsDrawn(entry) == entry.rects # <<>>

\* C15: the k-th page of the merged document is the copy of the k-th page
\* of the list; every page but the one just added carries its own masks and
\* blocks before the next page is added; a downloaded document has exactly
\* one drawn page per page of the list, in list order.
C15_PagesInListOrder ==
    /\ ~IsNull(job) =>
           LET j == theJob
           IN  /\ Len(j.merged) <= Len(j.pages)
               /\ \A k \in 1..Len(j.merged) :
                      /\ j.merged[k].pageId = j.pages[k].id
                      /\ k < Len(j.merged) => j.merged[k] = drawnPage(j, j.pages[k])
               /\ j.drawn \in {Len(j.merged), Len(j.merged) - 1}
               /\ pc = "loadPage" => j.drawn = Len(j.merged) /\ j.i = j.drawn + 1
    /\ \A n \in 1..Len(downloads) :
           LET d == downloads[n]
           IN  /\ Len(d.document) = Len(d.inputs.pages)
               /\ \A k \in 1..Len(d.document) :
                      /\ d.document[k].pageId = d.inputs.pages[k].id
                      /\ IsDrawn(d.document[k])
                      /\ d.document[k].rotation = d.inputs.pages[k].rotation

\* C15 witness: the second page has been copied and is not drawn yet, the
\* first page carries its drawings.
C15_Witness ==
    /\ pc = "drawPage"
    /\ Len(theJob.merged) = 2
    /\ IsDrawn(theJob.merged[1])
    /\ ~IsDrawn(theJob.merged[2])
    /\ theJob.merged[2].pageId = 2

LogSettles ==
    /\ Len(logRequests') = Len(logRequests)
    /\ logRequests' # logRequests

\* C18: a log-export request is issued only with a download, the export does
\* not wait for it (the exporting flag is cleared while it is pending), and
\* however it settles, the settling changes neither the outcome reported
\* (toasts, downloads) nor the exporting flag nor the running call.
C18_LogIsFireAndForget ==
    /\ [](Len(logRequests) = Len(downloads))
    /\ [](pc = "idle" => ~exporting)
    /\ [][LogSettles => UNCHANGED <<exporting, pc, job, toasts, downloads>>]_vars

\* C18 witness: the export succeeded, the flag is cleared, and the log
\* request was rejected afterwards.
C18_Witness ==
    /\ pc = "idle"
    /\ ~exporting
    /\ toasts = <<"success">>
    /\ Len(downloads) = 1
    /\ logRequests = <<"rejected">>

---------------------------------------------------------------------------
(* Claims about uploading and confirming pages (SpecUpload) *)

\* C16: every page gets its own mask settings in the step that adds it to
\* the page list, set to bottomHeight 100, leftWidth 0, enableLShape false;
\* after any sequence of uploads, selections, confirmations and mask changes
\* every page of the list has a mask settings entry.
C16_EveryPageHasMaskSettings ==
    /\ [](\A i \in 1..Len(pages) : pages[i].id \in DOMAIN maskSettings)
    /\ [](\A i \in 1..Len(pages), k \in 1..Len(pages) :
              pages[i].id = pages[k].id => i = k)
    /\ [][\A i \in (Len(pages) + 1)..Len(pages') :
              /\ pages'[i].id \in DOMAIN maskSettings'
              /\ pages'[i].id \notin DOMAIN maskSettings
              /\ maskSettings'[pages'[i].id] = defaultMaskSettings]_vars

\* C16 witness: a second upload has added page 2 after page 1 was confirmed
\* with a changed mask; page 2 has the default settings, page 1 keeps its own.
C16_Witness ==
    /\ Len(pages) = 2
    /\ pages[1].status = "done"
    /\ pages[2].status = "pending"
    /\ maskSettings[1].bottomHeight = Px(140)
    /\ maskSettings[1].enableLShape
    /\ maskSettings[2] = defaultMaskSettings

---------------------------------------------------------------------------
(* Claims about the text content of an export (SpecContent) *)

FeeFields == { "fee_ratio_landlord", "fee_ratio_tenant",
               "fee_distribution_motoduke", "fee_distribution_kyakuzuke" }

\* the text draws of an exported page that come from the block of a field
TextDrawsOf(e, field) == { k \in 1..Len(e.texts) : e.texts[k].field = field }

\* C24: at draw time a text block is drawn if and only if its resolved
\* content is present: a non-fee field that is null or the empty string is
\* skipped (never drawn empty), a fee field whose value is null is skipped,
\* and a fee field with any non-null value, including 0, is drawn as the
\* string '<label>: <value>%'.
C24_DrawnIffContentPresent ==
    Downloaded =>
        \A i \in 1..Len(ExportedDocument) :
            LET e == ExportedDocument[i]
                list == pageBlocksOf(SourcePage(e), blocks)
            IN  /\ \A k \in 1..Len(e.texts) : e.texts[k].content # ""
                /\ \A n \in 1..Len(list) :
                       LET b == list[n]
                           value == Val(companyProfile)[b.field]
                           draws == TextDrawsOf(e, b.field)
                           present == IF b.field \in FeeFields THEN value # Null
                                      ELSE value # Null /\ value # Some("")
                       IN  b.type = "text" =>
                               /\ ~present => draws = {}
                               /\ present =>
                                      /\ Cardinality(draws) = 1
                                      /\ \A k \in draws :
                                             e.texts[k].content =
                                                 IF b.field \in FeeFields
                                                 THEN FEE_LABELS[b.field] \o ": "
                                                      \o NumStr(Val(value)) \o "%"
                                                 ELSE Val(value)

\* C24 witness: the landlord ratio is 0 and is drawn as 'label: 0%'; the
\* tenant ratio is null and the company name is empty, their blocks exist
\* and are not drawn.
C24_Witness ==
    /\ Downloaded
    /\ Val(companyProfile).fee_ratio_landlord = Some(0)
    /\ Val(companyProfile).fee_ratio_tenant = Null
    /\ Val(companyProfile).company_name = Some("")
    /\ HasBlock(pageBlocksOf(pages[1], blocks), "fee_ratio_tenant")
    /\ HasBlock(pageBlocksOf(pages[1], blocks), "company_name")
    /\ TextDrawsOf(ExportedDocument[1], "fee_ratio_tenant") = {}
    /\ TextDrawsOf(ExportedDocument[1], "company_name") = {}
    /\ \E k \in TextDrawsOf(ExportedDocument[1], "fee_ratio_landlord") :
           ExportedDocument[1].texts[k].content = "kashinushi-futan: 0%"

---------------------------------------------------------------------------
(* Claims about what an export finds in the preview (SpecPipeline) *)

\* every page of the list an export call works on has a block list and
\* recorded preview dimensions
InputsComplete(in) ==
    \A k \in 1..Len(in.pages) :
        /\ in.pages[k].id \in DOMAIN in.blocks
        /\ in.pages[k].id \in DOMAIN in.pageDimensions

\* C26: whenever an export runs, every page in the page list has a generated
\* block list and recorded preview dimensions: no page is exported with its
\* mask drawn but without any Layout-Generator blocks merely because it was
\* never displayed in the preview before the export button was pressed.
C26_ExportedPagesHaveBlocks ==
    /\ Running => InputsComplete(jobInputs(theJob))
    /\ \A n \in 1..Len(downloads) :
           /\ InputsComplete(downloads[n].inputs)
           /\ \A k \in 1..Len(downloads[n].document) :
                  downloads[n].document[k].rects # <<>> =>
                      downloads[n].document[k].texts # <<>>

---------------------------------------------------------------------------
(* Claims about the steps of the editor (SpecUpload) *)

\* C27: whenever the editor is in the 'preview' step, the page list is
\* non-empty, every page has status 'done' and a company profile is loaded;
\* this holds after any interleaving of uploads that finish asynchronously,
\* page selections, confirmations, re-edits and back navigation.
C27_PreviewOnlyWhenAllDone ==
    step = "preview" =>
        /\ Len(pages) > 0
        /\ \A i \in 1..Len(pages) : pages[i].status = "done"
        /\ ~IsNull(companyProfile)
        /\ mounted > 0

\* C27 witness: the preview is open for the second time, on one confirmed
\* page, while a handleFilesSelected call started in the edit step is still
\* parsing.
C27_Witness ==
    /\ step = "preview"
    /\ mounted = 2
    /\ Len(pages) = 1
    /\ pages[1].status = "done"
    /\ Len(uploads) = 1
    /\ parsedCount(uploads[1].files) = 1

EditingPages == { i \in 1..Len(pages) : pages[i].status = "editing" }

\* C28: at most one page has status 'editing' at any time, and a page with
\* status 'editing' is always the currently selected page, after any sequence
\* of page selections, confirmations, re-edits and uploads.
C28_OneEditingPageSelected ==
    /\ Cardinality(EditingPages) <= 1
    /\ \A i \in EditingPages : selectedPageId = Some(pages[i].id)

\* the pages the files of a batch hold, and how many of its files do not parse
PagesOfBatch(files) ==
    files[1] + (IF Len(files) = 2 THEN files[2] ELSE 0)
FailedOfBatch(files) ==
    Cardinality({ i \in 1..Len(files) : files[i] = 0 })

\* what the call that has just finished with these files has done
BatchCommitted(files) ==
    LET added == PagesOfBatch(files)
        old == Len(pages)
    IN  /\ Len(toasts') = Len(toasts) + FailedOfBatch(files)
        /\ \A k \in 1..Len(toasts') :
               IF k <= Len(toasts) THEN toasts'[k] = toasts[k]
               ELSE toasts'[k] = "parseError"
        /\ Len(pages') = old + added
        /\ \A i \in 1..old : pages'[i] = pages[i]
        /\ \A i \in (old + 1)..(old + added) :
               /\ pages'[i].id = i
               /\ pages'[i].status = "pending"
               /\ pages'[i].id \in DOMAIN maskSettings'
               /\ maskSettings'[pages'[i].id] = defaultMaskSettings
        /\ \A id \in DOMAIN maskSettings :
               id \in DOMAIN maskSettings' /\ maskSettings'[id] = maskSettings[id]
        /\ added = 0 => UNCHANGED <<pages, maskSettings, selectedPageId, step>>
        /\ added > 0 => step' = "edit"

---------------------------------------------------------------------------
(* Claims about the exporting flag (SpecLeave) *)

\* C30: the exporting flag is true exactly while an export is in progress:
\* it is set when handleExport starts, it eventually returns to false after
\* every export attempt whether the attempt succeeds or fails, and a second
\* export cannot be started from the export button while it is true.
C30_ExportingWhileRunning ==
    /\ [](step = "preview" => (exporting <=> Running))
    /\ [][attempts' # attempts => ~exporting /\ exporting']_vars
    /\ (exporting ~> ~exporting)

===========================================================================
